---- MODULE Spec2Model ----
(***************************************************************************)
(* A model of warpy (src/warpy.py), an interpreter for the 0xc WebAssembly *)
(* binary format: the byte Reader and its LEB128 decoder, the linear       *)
(* Memory helpers, the control-flow pre-pass (find_blocks) and the         *)
(* dispatch loop (run_code_v12) with its four stacks.                      *)
(*                                                                         *)
(* Offsets are 0-based as in the source; the byte at offset p of a         *)
(* sequence b is b[p+1].                                                   *)
(***************************************************************************)
EXTENDS Integers, Sequences, FiniteSets, TLC

VARIABLES
    rdr_bytes,    \* Reader.bytes
    rdr_pos,      \* Reader.pos
    leb,          \* the locals of the running Reader.read_LEB call
    input,        \* the value whose encoding the reader was given
    memory,       \* Memory.bytes
    memlog,       \* the Memory helper calls made so far, with their results
    fb,           \* the locals of the running Module.find_blocks call
    block_map,    \* Module.block_map
    branch_map,   \* Module.branch_map
    stack,        \* Module.stack (operand stack)
    localstack,   \* Module.localstack
    sigstack,     \* Module.sigstack
    returnstack,  \* Module.returnstack
    status,       \* Module.run: "idle", "running", "returned", or its exception
    result,       \* what Module.run returned
    name,         \* run's name argument
    args,         \* run's args argument
    function,     \* Module.function
    export_map,   \* Module.export_map, as the function index of each name
    types,        \* Module.type
    import_list,  \* Module.import_list
    ep,           \* the position of the running entry_point call, and what it returned
    argv,         \* entry_point's argv
    out,          \* what was printed on standard output
    host,         \* the calls of host_import_func made so far, with the arguments
                  \* the host function got
    stdin         \* what the reads of standard input are still to return

readerVars == <<rdr_bytes, rdr_pos>>
lebVars    == <<leb, input>>
memVars    == <<memory, memlog>>
preVars    == <<fb, block_map, branch_map>>
runVars    == <<stack, localstack, sigstack, returnstack, status, result, name, args,
                function, export_map>>
envVars    == <<types, import_list, ep, argv, out, host, stdin>>
vars       == <<rdr_bytes, rdr_pos, leb, input, memory, memlog, fb, block_map,
                branch_map, stack, localstack, sigstack, returnstack, status,
                result, name, args, function, export_map, types, import_list, ep,
                argv, out, host, stdin>>

(***************************************************************************)
(* Python integers.  TLC's integers are 32-bit and the code's values pass  *)
(* 2^31 (an i32.add past the signed range, an unsigned 32-bit read, the    *)
(* 64-bit memory helpers), so a Python int is a little-endian tuple of     *)
(* IntBytes base-256 digits in two's complement.  Python's ints are        *)
(* unbounded; IntBytes is wide enough for every value the model computes.  *)
(***************************************************************************)
IntBytes == 10

Digits == 1..IntBytes

Pow256(k) == CASE k = 0 -> 1 [] k = 1 -> 256 [] k = 2 -> 65536 [] OTHER -> 16777216

\* The digits f[1], ..., f[IntBytes] as a tuple (TLC evaluates a tuple once).
RECURSIVE PyDigitsFrom(_, _)
PyDigitsFrom(f, i) ==
    IF i > IntBytes THEN <<>> ELSE <<f[i]>> \o PyDigitsFrom(f, i + 1)

PyDigits(f) == PyDigitsFrom(f, 1)

\* The Python int n, for a TLC integer n.
PyInt(n) ==
    PyDigits([i \in Digits |-> IF i <= 4 THEN (n \div Pow256(i - 1)) % 256
                               ELSE IF n < 0 THEN 255 ELSE 0])

PyIsNeg(a) == a[IntBytes] >= 128

\* The TLC integer of a Python int within 31 bits; saturated outside.
PyVal(a) ==
    LET ext == IF PyIsNeg(a) THEN 255 ELSE 0
        fits == /\ \A i \in Digits : i > 4 => a[i] = ext
                /\ (a[4] >= 128) = PyIsNeg(a)
    IN  IF fits
        THEN a[1] + 256 * a[2] + 65536 * a[3]
             + 16777216 * (IF PyIsNeg(a) THEN a[4] - 256 ELSE a[4])
        ELSE IF PyIsNeg(a) THEN -2147483647 ELSE 2147483647

RECURSIVE PyCarry(_, _, _)
PyCarry(a, b, i) ==
    IF i = 0 THEN 0 ELSE (a[i] + b[i] + PyCarry(a, b, i - 1)) \div 256

\* a + b
PyAdd(a, b) ==
    PyDigits([i \in Digits |-> (a[i] + b[i] + PyCarry(a, b, i - 1)) % 256])

\* -a
PyNeg(a) == PyAdd(PyDigits([i \in Digits |-> 255 - a[i]]), PyInt(1))

\* a - b
PySub(a, b) == PyAdd(a, PyNeg(b))

RECURSIVE PyColumn(_, _, _, _)
PyColumn(a, b, k, i) ==
    IF i = 0 THEN 0 ELSE a[i] * b[k + 1 - i] + PyColumn(a, b, k, i - 1)

RECURSIVE PyMulCarry(_, _, _)
PyMulCarry(a, b, k) ==
    IF k = 0 THEN 0
    ELSE (PyColumn(a, b, k, k) + PyMulCarry(a, b, k - 1)) \div 256

\* a * b
PyMul(a, b) ==
    PyDigits([k \in Digits |->
                (PyColumn(a, b, k, k) + PyMulCarry(a, b, k - 1)) % 256])

\* a < b, a == b, bool(a)
PyLt(a, b) == PyIsNeg(PySub(a, b))
PyEq(a, b) == a = b
PyTruth(a) == a # PyInt(0)

RECURSIVE BitAnd(_, _)
BitAnd(x, y) ==
    IF x = 0 \/ y = 0 THEN 0
    ELSE (x % 2) * (y % 2) + 2 * BitAnd(x \div 2, y \div 2)

BitOr(x, y) == x + y - BitAnd(x, y)

\* a & b, a | b
PyAnd(a, b) == PyDigits([i \in Digits |-> BitAnd(a[i], b[i])])
PyOr(a, b)  == PyDigits([i \in Digits |-> BitOr(a[i], b[i])])

RECURSIVE PyDouble(_, _)
PyDouble(a, n) == IF n = 0 THEN a ELSE PyDouble(PyAdd(a, a), n - 1)

\* a << k
PyShl(a, k) ==
    PyDouble(PyDigits([i \in Digits |->
                         IF i > k \div 8 THEN a[i - k \div 8] ELSE 0]), k % 8)

RECURSIVE PyHalve(_, _)
PyHalve(a, n) ==
    IF n = 0 THEN a
    ELSE PyHalve(PyDigits([i \in Digits |->
                    (a[i] \div 2)
                    + 128 * (IF i < IntBytes THEN a[i + 1] % 2
                             ELSE IF PyIsNeg(a) THEN 1 ELSE 0)]), n - 1)

\* a >> k
PyShr(a, k) ==
    PyHalve(PyDigits([i \in Digits |->
                        IF i + k \div 8 <= IntBytes THEN a[i + k \div 8]
                        ELSE IF PyIsNeg(a) THEN 255 ELSE 0]), k % 8)

\* Bit k of a (0 is the lowest)
PyBit(a, k) == (a[k \div 8 + 1] \div (CASE k % 8 = 0 -> 1 [] k % 8 = 1 -> 2
                                        [] k % 8 = 2 -> 4 [] k % 8 = 3 -> 8
                                        [] k % 8 = 4 -> 16 [] k % 8 = 5 -> 32
                                        [] k % 8 = 6 -> 64 [] OTHER -> 128)) % 2

\* abs(a)
PyAbs(a) == IF PyIsNeg(a) THEN PyNeg(a) ELSE a

\* Long division of a by b, both positive or zero and b not zero, from the
\* highest bit of a down: acc is the quotient and the remainder of the bits
\* above bit k (the remainder is below b), and bit k comes down into the
\* remainder.
PyDivBit(b, q, down) ==
    IF PyLt(down, b) THEN [q |-> PyAdd(q, q), r |-> down]
    ELSE [q |-> PyAdd(PyAdd(q, q), PyInt(1)), r |-> PySub(down, b)]

RECURSIVE PyDivBits(_, _, _, _)
PyDivBits(a, b, k, acc) ==
    IF k < 0 \/ ~PyLt(acc.r, b) THEN acc.q
    ELSE PyDivBits(a, b, k - 1,
                   PyDivBit(b, acc.q, PyAdd(PyAdd(acc.r, acc.r), PyInt(PyBit(a, k)))))

\* a / b for Python 2 ints and b not zero: the floor of the quotient.
PyFloorDiv(a, b) ==
    IF PyIsNeg(a) = PyIsNeg(b)
    THEN PyDivBits(PyAbs(a), PyAbs(b), 8 * IntBytes - 2, [q |-> PyInt(0), r |-> PyInt(0)])
    ELSE PyNeg(PyDivBits(PySub(PyAdd(PyAbs(a), PyAbs(b)), PyInt(1)), PyAbs(b),
                         8 * IntBytes - 2, [q |-> PyInt(0), r |-> PyInt(0)]))

\* The highest bit set in a, a positive int below 2^53
RECURSIVE HighBit(_, _)
HighBit(a, k) == IF k = 0 \/ PyBit(a, k) = 1 THEN k ELSE HighBit(a, k - 1)

\* float(a) as the bits of an IEEE 754 double, for a within 53 bits (every
\* such int is a double): sign, exponent + 1023, and the bits under the
\* highest one moved to the top of the 52-bit fraction.
FloatBits(a) ==
    IF a = PyInt(0) THEN PyInt(0)
    ELSE LET e == HighBit(PyAbs(a), 52)
         IN  PyAdd(PyAdd(IF PyIsNeg(a) THEN PyShl(PyInt(1), 63) ELSE PyInt(0),
                         PyShl(PyInt(e + 1023), 52)),
                   PyShl(PySub(PyAbs(a), PyShl(PyInt(1), e)), 52 - e))

(***************************************************************************)
(* Reader                                                                  *)
(***************************************************************************)
CeilDiv(a, b) == (a + b - 1) \div b

\* The locals of read_LEB on entry (result = 0, shift = 0, bcnt = 0).
read_LEB_enter(pos, maxbits, signed) ==
    [st |-> "loop", maxbits |-> maxbits, signed |-> signed, result |-> PyInt(0),
     shift |-> 0, bcnt |-> 0, byte |-> 0, startpos |-> pos, pos |-> pos]

\* read_LEB_iter whose sanity check is bcnt >= ceil(maxbits/7.0)
read_LEB_iter_AtLimit(bytes, l) ==
    IF l.pos >= Len(bytes) \/ l.pos < -Len(bytes)
    THEN [l EXCEPT !.st = "IndexError"]
    ELSE LET byte == bytes[(IF l.pos < 0 THEN l.pos + Len(bytes) ELSE l.pos) + 1]
             res  == PyOr(l.result, PyShl(PyInt(BitAnd(byte, 127)), l.shift))
             read == [l EXCEPT !.pos = l.pos + 1, !.byte = byte, !.result = res]
         IN  IF BitAnd(byte, 128) = 0
             THEN [read EXCEPT !.st = "break"]
             ELSE [read EXCEPT !.shift = l.shift + 7, !.bcnt = l.bcnt + 1,
                               !.st = IF l.bcnt + 1 >= CeilDiv(l.maxbits, 7)
                                      THEN "overflow" ELSE "loop"]

\* One turn of read_LEB's while loop: read_byte, accumulate, break or count.
read_LEB_iter(bytes, l) ==
    IF l.pos >= Len(bytes) \/ l.pos < -Len(bytes)
    THEN [l EXCEPT !.st = "IndexError"]
    ELSE LET byte == bytes[(IF l.pos < 0 THEN l.pos + Len(bytes) ELSE l.pos) + 1]
             res  == PyOr(l.result, PyShl(PyInt(BitAnd(byte, 127)), l.shift))
             read == [l EXCEPT !.pos = l.pos + 1, !.byte = byte, !.result = res]
         IN  IF BitAnd(byte, 128) = 0
             THEN [read EXCEPT !.st = "break"]
             ELSE [read EXCEPT !.shift = l.shift + 7, !.bcnt = l.bcnt + 1,
                               !.st = IF l.bcnt + 1 > CeilDiv(l.maxbits, 7)
                                      THEN "overflow" ELSE "loop"]

\* The sign bit that read_LEB ORs into the result of a signed read.
LEBSignExtend(res, shift) == PyOr(res, PyNeg(PyShl(PyInt(1), shift)))

\* After the loop: sign extension, and the return.
read_LEB_return(l) ==
    IF l.signed /\ l.shift < l.maxbits /\ BitAnd(l.byte, 64) # 0
    THEN [l EXCEPT !.st = "done", !.result = LEBSignExtend(l.result, l.shift)]
    ELSE [l EXCEPT !.st = "done"]

RECURSIVE read_LEB_loop(_, _)
read_LEB_loop(bytes, l) ==
    IF l.st = "loop" THEN read_LEB_loop(bytes, read_LEB_iter(bytes, l))
    ELSE IF l.st = "break" THEN read_LEB_return(l)
    ELSE l

\* Reader.read_LEB as one call: the final locals (st is "done", "overflow" or
\* "IndexError"; result and pos are the value returned and the reader's position).
read_LEB(bytes, pos, maxbits, signed) ==
    read_LEB_loop(bytes, read_LEB_enter(pos, maxbits, signed))

(***************************************************************************)
(* Memory.  Memory.bytes is a list of pages * 2^16 small ints; the model   *)
(* keeps its length and the cells that are not 0.  Indexing follows        *)
(* Python: an index in -size .. -1 counts from the end, an index outside   *)
(* -size .. size-1 raises IndexError, and a slice is clamped.              *)
(***************************************************************************)
PageSize == 65536

\* Memory.__init__(pages)
Memory(pages) == [size |-> pages * PageSize, cells |-> <<>>]

MemIndexOk(mem, p) == -mem.size <= p /\ p < mem.size

MemNorm(mem, p) == IF p < 0 THEN p + mem.size ELSE p

\* self.bytes[p], for an index in range
MemGet(mem, p) ==
    IF MemNorm(mem, p) \in DOMAIN mem.cells THEN mem.cells[MemNorm(mem, p)] ELSE 0

\* self.bytes[p] = v, for an index in range
MemSet(mem, p, v) ==
    LET q   == MemNorm(mem, p)
        dom == IF v = 0 THEN DOMAIN mem.cells \ {q} ELSE DOMAIN mem.cells \cup {q}
    IN  [mem EXCEPT !.cells = [a \in dom |-> IF a = q THEN v ELSE mem.cells[a]]]

SliceIndex(i, n) == IF i < 0 THEN (IF i + n < 0 THEN 0 ELSE i + n)
                    ELSE (IF i > n THEN n ELSE i)

\* self.bytes[lo:hi]
MemSlice(mem, lo, hi) ==
    LET a == SliceIndex(lo, mem.size)
        b == SliceIndex(hi, mem.size)
    IN  [k \in 1..(IF b > a THEN b - a ELSE 0) |-> MemGet(mem, a + k - 1)]

\* bytes2uint32(b): ok is FALSE where b[3] raises IndexError.
bytes2uint32(b) ==
    IF Len(b) < 4 THEN [ok |-> FALSE, val |-> PyInt(0)]
    ELSE [ok |-> TRUE,
          val |-> PyAdd(PyAdd(PyAdd(PyShl(PyInt(b[4]), 24), PyShl(PyInt(b[3]), 16)),
                              PyShl(PyInt(b[2]), 8)), PyInt(b[1]))]

\* bytes2uint64(b)
bytes2uint64(b) ==
    IF Len(b) < 8 THEN [ok |-> FALSE, val |-> PyInt(0)]
    ELSE [ok |-> TRUE,
          val |-> PyAdd(PyAdd(PyAdd(PyAdd(PyAdd(PyAdd(PyAdd(
                    PyShl(PyInt(b[8]), 56), PyShl(PyInt(b[7]), 48)),
                    PyShl(PyInt(b[6]), 40)), PyShl(PyInt(b[5]), 32)),
                    PyShl(PyInt(b[4]), 24)), PyShl(PyInt(b[3]), 16)),
                    PyShl(PyInt(b[2]), 8)), PyInt(b[1]))]

\* Memory.read_I32(pos), Memory.read_I64(pos)
read_I32(mem, pos) == bytes2uint32(MemSlice(mem, pos, pos + 4))

read_I64(mem, pos) == bytes2uint32(MemSlice(mem, pos, pos + 8))

\* (val & (0xff << 8k)) >> 8k
ByteOf(val, k) == PyVal(PyShr(PyAnd(val, PyShl(PyInt(255), 8 * k)), 8 * k))

\* self.bytes[pos] = ..., self.bytes[pos+1] = ..., one after the other, up to
\* the first index that raises IndexError.
RECURSIVE MemStore(_, _, _, _, _)
MemStore(mem, pos, val, k, n) ==
    IF k = n THEN [ok |-> TRUE, mem |-> mem]
    ELSE IF ~MemIndexOk(mem, pos + k) THEN [ok |-> FALSE, mem |-> mem]
    ELSE MemStore(MemSet(mem, pos + k, ByteOf(val, k)), pos, val, k + 1, n)

\* Memory.write_I32(pos, val), Memory.write_I64(pos, val)
write_I32(mem, pos, val) == MemStore(mem, pos, val, 0, 4)

write_I64(mem, pos, val) == MemStore(mem, pos, val, 0, 8)

(***************************************************************************)
(* Values: I32(val), I64(val), F32(val), F64(val), and Python's None.      *)
(***************************************************************************)
I32(val) == [t |-> "i32", v |-> val]

I64(val) == [t |-> "i64", v |-> val]

\* A float is held as the bits of its IEEE 754 encoding.
F32(val) == [t |-> "f32", v |-> val]

F64(val) == [t |-> "f64", v |-> val]

None == [t |-> "None", v |-> PyInt(0)]

(***************************************************************************)
(* Opcode tables                                                           *)
(***************************************************************************)
\* BLOCK_TYPE[b]: Type(-1, Empty, [], results)
BLOCK_TYPE(b) ==
    [index |-> -1, params |-> <<>>,
     results |-> CASE b = 0 -> <<>>
                   [] b = 1 -> <<"i32">>
                   [] b = 2 -> <<"i64">>
                   [] b = 3 -> <<"f32">>
                   [] OTHER -> <<"f64">>]

BlockTypeCodes == 0..4

\* OPERATOR_INFO[opcode][1], the immediate type; "KeyError" for a byte that
\* is not in the table.
ImmType(opcode) ==
    CASE opcode \in {0, 4, 5, 9, 10, 11, 15, 57, 59}   -> ""
      [] opcode \in 1..3                               -> "inline_signature_type"
      [] opcode \in {6, 7, 20, 21, 22, 23, 25, 187, 188} -> "varuint32"
      [] opcode = 8                                    -> "br_table"
      [] opcode = 16                                   -> "varint32"
      [] opcode = 17                                   -> "varint64"
      [] opcode = 18                                   -> "uint64"
      [] opcode = 19                                   -> "uint32"
      [] opcode \in 32..54                             -> "memory_immediate"
      [] opcode \in 64..186                            -> ""
      [] OTHER                                         -> "KeyError"

\* What a call on the reader leaves: st is "ok" or the exception, pos the
\* reader's position, val the value read.
Read(st, pos, val) == [st |-> st, pos |-> pos, val |-> val]

\* What read_LEB leaves (l), as a Read.
AsRead(l) == Read(IF l.st = "done" THEN "ok" ELSE l.st, l.pos, l.result)

\* rdr.read_LEB(maxbits) on a reader at pos, as a Read.
ReadLEB(bytes, pos, maxbits, signed) == AsRead(read_LEB(bytes, pos, maxbits, signed))

\* rdr.read_byte() on a reader at pos, as a Read (val is a TLC integer).
ReadByte(bytes, pos) ==
    IF pos >= Len(bytes) \/ pos < -Len(bytes) THEN Read("IndexError", pos, 0)
    ELSE Read("ok", pos + 1, bytes[(IF pos < 0 THEN pos + Len(bytes) ELSE pos) + 1])

\* n calls of rdr.read_LEB(maxbits) in a row, the values dropped; r is what
\* the first of them leaves.
RECURSIVE SkipLEBs(_, _, _, _)
SkipNext(bytes, r, n, maxbits) ==
    IF r.st # "ok" THEN r ELSE SkipLEBs(bytes, r.pos, n - 1, maxbits)

SkipLEBs(bytes, pos, n, maxbits) ==
    IF n <= 0 THEN Read("ok", pos, PyInt(0))
    ELSE SkipNext(bytes, ReadLEB(bytes, pos, maxbits, FALSE), n, maxbits)

\* The br_table immediates after target_count (count, as read): count
\* targets and the default target.
DropTable(bytes, count) ==
    IF count.st # "ok" THEN count
    ELSE SkipLEBs(bytes, count.pos, PyVal(count.val) + 1, 32)

\* The 1 byte signature (b, as read).
DropByte(b) == Read(b.st, b.pos, PyInt(0))

\* How many read_LEB calls drop_immediates makes for an immediate type, and
\* of what maxbits.
LEBCount(imtype) ==
    CASE imtype \in {"varint32", "varuint32", "varint64", "varuint64"} -> 1
      [] imtype = "memory_immediate" -> 2
      [] OTHER -> 0

LEBBits(imtype) == IF imtype \in {"varint64", "varuint64"} THEN 64 ELSE 32

DropOfType(bytes, pos, imtype) ==
    CASE imtype = "KeyError" -> Read("KeyError", pos, PyInt(0))
      [] imtype = "uint32" -> Read("ok", pos + 4, PyInt(0))
      [] imtype = "uint64" -> Read("ok", pos + 8, PyInt(0))
      [] imtype = "inline_signature_type" -> DropByte(ReadByte(bytes, pos))
      [] imtype = "br_table" -> DropTable(bytes, ReadLEB(bytes, pos, 32, FALSE))
      [] OTHER -> SkipLEBs(bytes, pos, LEBCount(imtype), LEBBits(imtype))

\* drop_immediates(rdr, opcode) with the reader at pos.
drop_immediates(bytes, pos, opcode) == DropOfType(bytes, pos, ImmType(opcode))

(***************************************************************************)
(* Blocks and functions.  A Block and a Function are records of the same  *)
(* fields; a Function has kind -1 and a Block has index -1.                *)
(***************************************************************************)
\* A loop labelled as a block is, after its end: a taken br then leaves the
\* loop instead of repeating it.
BlockLabelAddr_LoopAtEnd(kind, start, end) ==
    IF kind = 4 THEN end ELSE end + 1

\* The label address Block.update is given for a block of this kind.
BlockLabelAddr(kind, start, end) ==
    IF kind = 2 THEN start
    ELSE IF kind = 4 THEN end
    ELSE end + 1

\* Block(kind, sig, start, end), then block.update(label_addr)
Block(kind, sig, start, end) ==
    [cls |-> "Block", kind |-> kind, type |-> sig, index |-> -1, locals |-> <<>>,
     start |-> start, end |-> end, label_addr |-> BlockLabelAddr(kind, start, end)]

\* Function(type, index), then func.update(locals, start, end)
Function(type, index, locals, start, end) ==
    [cls |-> "Function", kind |-> -1, type |-> type, index |-> index,
     locals |-> locals, start |-> start, end |-> end, label_addr |-> end]

(***************************************************************************)
(* find_blocks.  f holds its locals: the second reader's position, the    *)
(* last opcode, opstack, block_start_map (bsm, and its keys in the order   *)
(* they were inserted), block_end_map (bem), blockstack, and start and     *)
(* end, which the loop that creates the blocks rebinds.                    *)
(***************************************************************************)
find_blocks_enter(start, end) ==
    [st |-> "passA", pos |-> start, opcode |-> 0, opstack |-> <<>>, bsm |-> <<>>,
     inserted |-> <<>>, bem |-> {}, start |-> start, end |-> end, blockstack |-> <<>>,
     fstart |-> start, fend |-> end]

FBIdle == [find_blocks_enter(0, 0) EXCEPT !.st = "idle"]

Pop(s) == SubSeq(s, 1, Len(s) - 1)

Top(s) == s[Len(s)]

\* d[k] = v on a dict d
DictSet(d, k, v) == [x \in DOMAIN d \cup {k} |-> IF x = k THEN v ELSE d[x]]

\* An entry that records the offset after the closing opcode.
BlockEntry_EndAfter(opcode, sig, end) == [kind |-> opcode, sig |-> sig, end |-> end + 1]

\* block_start_map[block_start] = (block_opcode, block_sig, pos)
BlockEntry(opcode, sig, end) == [kind |-> opcode, sig |-> sig, end |-> end]

\* Pass A on `end` (not the function's) and on `else`: pop the open entry and
\* record where it ends; `else` then opens its own entry.
passA_close(f, pos, opcode) ==
    IF f.opstack = <<>> THEN [f EXCEPT !.st = "IndexError", !.pos = pos + 1,
                                        !.opcode = opcode]
    ELSE LET open == Top(f.opstack)
             popped == [f EXCEPT !.opstack = Pop(f.opstack), !.pos = pos + 1,
                                 !.opcode = opcode]
             closed == [popped EXCEPT
                          !.bsm = DictSet(f.bsm, open.pos,
                                          BlockEntry(open.opcode, open.sig, pos)),
                          !.inserted = Append(f.inserted, open.pos),
                          !.bem = f.bem \cup {pos}]
         IN  IF opcode = 4
             THEN IF open.opcode # 3 THEN [popped EXCEPT !.st = "AssertionError"]
                  ELSE [closed EXCEPT !.opstack =
                          Append(Pop(f.opstack),
                                 [opcode |-> 4, sig |-> open.sig, pos |-> pos])]
             ELSE closed

\* Pass A on block, loop and if: b is the signature byte, as read.
passA_open(f, pos, opcode, b) ==
    IF b.st # "ok"
    THEN [f EXCEPT !.st = b.st, !.opcode = opcode, !.pos = b.pos]
    ELSE IF b.val \notin BlockTypeCodes
    THEN [f EXCEPT !.st = "KeyError", !.opcode = opcode, !.pos = b.pos]
    ELSE [f EXCEPT !.opcode = opcode, !.pos = b.pos,
                   !.opstack = Append(f.opstack,
                       [opcode |-> opcode, sig |-> BLOCK_TYPE(b.val), pos |-> pos])]

\* After drop_immediates (d is what it leaves), in the scan named by st.
Skipped(f, opcode, d, st) ==
    [f EXCEPT !.opcode = opcode, !.pos = d.pos,
              !.st = IF d.st = "ok" THEN st ELSE d.st]

\* Pass A on the opcode read at pos (op is the read).
passA_opcode(bytes, f, pos, op) ==
    IF op.st # "ok" THEN [f EXCEPT !.st = op.st]
    ELSE IF op.val \in 1..3
    THEN passA_open(f, pos, op.val, ReadByte(bytes, op.pos))
    ELSE IF op.val = 4 THEN passA_close(f, pos, op.val)
    ELSE IF op.val = 15
    THEN IF pos = f.end
         THEN [f EXCEPT !.st = "create", !.opcode = op.val, !.pos = op.pos]
         ELSE passA_close(f, pos, op.val)
    ELSE Skipped(f, op.val, drop_immediates(bytes, op.pos, op.val), "passA")

\* One turn of the first loop of find_blocks (the last turn leaves it, by the
\* break at the function's end or by the loop condition, and asserts).
passA_iter(bytes, f) ==
    IF f.pos > f.end
    THEN [f EXCEPT !.st = IF f.opcode = 15 THEN "create" ELSE "AssertionError"]
    ELSE passA_opcode(bytes, f, f.pos, ReadByte(bytes, f.pos))

\* The blocks the loop over block_start_map.items() puts into block_map.
CreatedBlocks(f, bmap) ==
    [p \in DOMAIN bmap \cup DOMAIN f.bsm |->
        IF p \in DOMAIN f.bsm
        THEN Block(f.bsm[p].kind, f.bsm[p].sig, p, f.bsm[p].end)
        ELSE bmap[p]]

\* The order of block_start_map.items() is the build's.  A translated build
\* (RPython) yields the items as they were inserted.  CPython 2 yields them
\* by slot of its hash table, kept here as the sequence of its slots (-1 for
\* a free slot): an int hashes to itself, a key whose slot is taken probes on
\* (i = 5*i + perturb + 1, perturb >>= 5), and a table two thirds full is
\* rebuilt, slot by slot, in the first size above four times its items.
Builds == {"CPython", "RPython"}

DictMinSize == 8

RECURSIVE DictSlot(_, _, _)
DictSlot(table, i, perturb) ==
    IF table[(i % Len(table)) + 1] = -1 THEN (i % Len(table)) + 1
    ELSE DictSlot(table, 5 * i + perturb + 1, perturb \div 32)

DictInsert(table, key) ==
    [table EXCEPT ![DictSlot(table, key % Len(table), key)] = key]

DictUsed(table) == Cardinality({i \in 1..Len(table) : table[i] # -1})

DictEmpty(size) == [i \in 1..size |-> -1]

RECURSIVE DictNewSize(_, _)
DictNewSize(size, minused) ==
    IF size > minused THEN size ELSE DictNewSize(2 * size, minused)

RECURSIVE DictCopy(_, _, _)
DictCopy(old, i, new) ==
    IF i > Len(old) THEN new
    ELSE DictCopy(old, i + 1, IF old[i] = -1 THEN new ELSE DictInsert(new, old[i]))

DictGrow(table) ==
    IF 3 * DictUsed(table) >= 2 * Len(table)
    THEN DictCopy(table, 1, DictEmpty(DictNewSize(DictMinSize, 4 * DictUsed(table))))
    ELSE table

RECURSIVE DictTable(_, _)
DictTable(keys, n) ==
    IF n = 0 THEN DictEmpty(DictMinSize)
    ELSE DictGrow(DictInsert(DictTable(keys, n - 1), keys[n]))

LastSlot(table) ==
    table[CHOOSE i \in 1..Len(table) :
             table[i] # -1 /\ \A j \in (i + 1)..Len(table) : table[j] = -1]

\* The key items() yields last.
LastItem(f, build) ==
    IF build = "RPython" THEN Top(f.inserted)
    ELSE LastSlot(DictTable(f.inserted, Len(f.inserted)))

\* After the loop that creates the blocks: its loop variables start and end
\* are find_blocks' own, so they keep the last item's values, and the second
\* scan starts from them.
create_blocks_last(f, last) ==
    [f EXCEPT !.st = "passB", !.start = last, !.end = f.bsm[last].end, !.pos = last]

create_blocks(f, build) ==
    IF f.bsm = <<>> THEN [f EXCEPT !.st = "passB", !.pos = f.start]
    ELSE create_blocks_last(f, LastItem(f, build))

\* The depths of one branch instruction: each resolves to
\* blockstack[-1-relative_depth] and is stored under the branch's offset.
\* depth is relative_depth as read; t holds st, pos and the branch map.
RECURSIVE BranchTargets(_, _, _, _, _, _)
BranchTarget(bytes, depth, count, blockstack, origin, brmap) ==
    IF depth.st # "ok"
    THEN [st |-> depth.st, pos |-> depth.pos, brmap |-> brmap]
    ELSE IF PyVal(depth.val) >= Len(blockstack)
    THEN [st |-> "IndexError", pos |-> depth.pos, brmap |-> brmap]
    ELSE BranchTargets(bytes, depth.pos, count - 1, blockstack, origin,
                       DictSet(brmap, origin,
                               blockstack[Len(blockstack) - PyVal(depth.val)]))

BranchTargets(bytes, pos, count, blockstack, origin, brmap) ==
    IF count <= 0 THEN [st |-> "ok", pos |-> pos, brmap |-> brmap]
    ELSE BranchTarget(bytes, ReadLEB(bytes, pos, 32, FALSE), count, blockstack,
                      origin, brmap)

\* The second scan on br, br_if and br_table; cnt is target_count - 1 as read
\* (0, unread, unless br_table).
passB_branch(bytes, f, pos, opcode, cnt, brmap) ==
    IF cnt.st # "ok"
    THEN [f |-> [f EXCEPT !.st = cnt.st, !.opcode = opcode, !.pos = cnt.pos],
          brmap |-> brmap]
    ELSE LET t == BranchTargets(bytes, cnt.pos, PyVal(cnt.val) + 1, f.blockstack,
                                pos, brmap)
         IN  [f |-> Skipped(f, opcode, t, "passB"), brmap |-> t.brmap]

\* The block stack of the second scan after the instruction at pos.
passB_blockstack(f, pos, bmap) ==
    IF pos \in DOMAIN f.bsm THEN Append(f.blockstack, bmap[pos])
    ELSE IF pos \in f.bem THEN Pop(f.blockstack)
    ELSE f.blockstack

\* The second scan on the opcode read at pos (op is the read).
passB_opcode(bytes, f, pos, op, bmap, brmap) ==
    IF op.st # "ok" THEN [f |-> [f EXCEPT !.st = op.st], brmap |-> brmap]
    ELSE IF pos \notin DOMAIN f.bsm /\ pos \in f.bem /\ f.blockstack = <<>>
    THEN [f |-> [f EXCEPT !.st = "IndexError", !.opcode = op.val, !.pos = op.pos],
          brmap |-> brmap]
    ELSE IF pos \notin DOMAIN f.bsm /\ pos \notin f.bem /\ op.val \in 6..8
    THEN passB_branch(bytes, f, pos, op.val,
                      IF op.val = 8 THEN ReadLEB(bytes, op.pos, 32, FALSE)
                      ELSE Read("ok", op.pos, PyInt(0)),
                      brmap)
    ELSE [f |-> Skipped([f EXCEPT !.blockstack = passB_blockstack(f, pos, bmap)],
                        op.val, drop_immediates(bytes, op.pos, op.val), "passB"),
          brmap |-> brmap]

\* One turn of the second loop of find_blocks: [f, brmap].
passB_iter(bytes, f, bmap, brmap) ==
    IF f.pos >= f.end THEN [f |-> [f EXCEPT !.st = "done"], brmap |-> brmap]
    ELSE passB_opcode(bytes, f, f.pos, ReadByte(bytes, f.pos), bmap, brmap)

\* The first loop of find_blocks, to its end.
RECURSIVE passA_loop(_, _)
passA_loop(bytes, f) ==
    IF f.st # "passA" THEN f ELSE passA_loop(bytes, passA_iter(bytes, f))

\* The second loop, to its end: [st, block_map, branch_map]; t is [f, brmap].
RECURSIVE passB_loop(_, _, _)
passB_loop(bytes, t, bmap) ==
    IF t.f.st # "passB"
    THEN [st |-> t.f.st, block_map |-> bmap, branch_map |-> t.brmap]
    ELSE passB_loop(bytes, passB_iter(bytes, t.f, bmap, t.brmap), bmap)

\* find_blocks from the end of its first loop (f).
find_blocks_scanned(bytes, f, bmap, brmap, build) ==
    IF f.st # "create" THEN [st |-> f.st, block_map |-> bmap, branch_map |-> brmap]
    ELSE passB_loop(bytes, [f |-> create_blocks(f, build), brmap |-> brmap],
                    CreatedBlocks(f, bmap))

\* self.find_blocks(func, start, end): [st, block_map, branch_map]
find_blocks(bytes, start, end, bmap, brmap, build) ==
    find_blocks_scanned(bytes, passA_loop(bytes, find_blocks_enter(start, end)),
                        bmap, brmap, build)

\* parse_Code over the bodies of funcs[1..n]: find_blocks on each in turn.
RECURSIVE parse_Code(_, _, _, _)
parse_Code_body(bytes, func, maps, build) ==
    IF maps.st # "done" THEN maps
    ELSE find_blocks(bytes, func.start, func.end, maps.block_map, maps.branch_map,
                     build)

parse_Code(bytes, funcs, n, build) ==
    IF n = 0 THEN [st |-> "done", block_map |-> <<>>, branch_map |-> <<>>]
    ELSE parse_Code_body(bytes, funcs[n], parse_Code(bytes, funcs, n - 1, build), build)

(***************************************************************************)
(* The decoder.  d is the module being decoded: the reader's position, st *)
(* ("ok" or the exception raised) and the tables Module.__init__ creates. *)
(* A name is the sequence of its bytes.                                    *)
(***************************************************************************)
\* Module(data, host_import_func, exports)
Module ==
    [st |-> "ok", pos |-> 0, type |-> <<>>, import_list |-> <<>>,
     function |-> <<>>, export_map |-> <<>>, memory |-> Memory(1),
     block_map |-> <<>>, branch_map |-> <<>>]

\* A call on the reader (r, as read) raised, or left the reader at r.pos.
Raised(d, r) == [d EXCEPT !.st = r.st, !.pos = r.pos]

\* Type(index, form, params, results)
Type(index, params, results) == [index |-> index, params |-> params, results |-> results]

\* VALUE_TYPE[code].TYPE_NAME
ValueTypeCodes == {1, 2, 3, 4, 16, 32, 64}

VALUE_TYPE(code) ==
    CASE code = 1  -> "i32"
      [] code = 2  -> "i64"
      [] code = 3  -> "f32"
      [] code = 4  -> "f64"
      [] code = 16 -> "anyfunc"
      [] code = 32 -> "func"
      [] OTHER     -> "emtpy_block_type"

\* Import(module, field, kind, type=, initial=, maximum=)
Import(module, field, kind, type, initial, maximum) ==
    [module |-> module, field |-> field, kind |-> kind, type |-> type,
     initial |-> initial, maximum |-> maximum]

\* FunctionImport(type, module, field): imp is the index in import_list of
\* the Import that holds its module and field.
FunctionImport(type, imp) ==
    [cls |-> "FunctionImport", kind |-> -1, type |-> type, index |-> imp,
     locals |-> <<>>, start |-> 0, end |-> 0, label_addr |-> 0]

\* rdr.read_word(): the slice is short at the end of the bytes, and
\* bytes2uint32 then raises IndexError.
read_word(bytes, pos) ==
    IF pos < 0 \/ pos + 4 > Len(bytes) THEN Read("IndexError", pos, PyInt(0))
    ELSE Read("ok", pos + 4,
              bytes2uint32(<<bytes[pos + 1], bytes[pos + 2], bytes[pos + 3],
                             bytes[pos + 4]>>).val)

\* rdr.read_bytes(cnt): the slice stops at the end of the bytes, pos does not.
read_bytes(bytes, pos, cnt) ==
    IF cnt <= 0 \/ pos < 0 THEN Read("AssertionError", pos, <<>>)
    ELSE Read("ok", pos + cnt,
              [k \in 1..((IF pos + cnt > Len(bytes) THEN Len(bytes) ELSE pos + cnt)
                          - (IF pos > Len(bytes) THEN Len(bytes) ELSE pos))
                 |-> bytes[pos + k]])

\* rdr.read_bytes(rdr.read_LEB(32)), len being the LEB as read.
ReadName(bytes, len) ==
    IF len.st # "ok" THEN Read(len.st, len.pos, <<>>)
    ELSE read_bytes(bytes, len.pos, PyVal(len.val))

\* n times VALUE_TYPE[rdr.read_LEB(32)], appended to acc.
RECURSIVE ReadValueTypes(_, _, _, _)
ValueTypeNext(bytes, r, n, acc) ==
    IF r.st # "ok" THEN Read(r.st, r.pos, acc)
    ELSE IF PyVal(r.val) \notin ValueTypeCodes THEN Read("KeyError", r.pos, acc)
    ELSE ReadValueTypes(bytes, r.pos, n - 1, Append(acc, VALUE_TYPE(PyVal(r.val))))

ReadValueTypes(bytes, pos, n, acc) ==
    IF n <= 0 THEN Read("ok", pos, acc)
    ELSE ValueTypeNext(bytes, ReadLEB(bytes, pos, 32, FALSE), n, acc)

\* A count (as read) and then that many value types.
ReadTypeVec(bytes, count) ==
    IF count.st # "ok" THEN Read(count.st, count.pos, <<>>)
    ELSE ReadValueTypes(bytes, count.pos, PyVal(count.val), <<>>)

\* parse_Type: n entries to go.
RECURSIVE parse_Type_loop(_, _, _)
parse_Type_results(bytes, d, n, params, results) ==
    IF results.st # "ok" THEN Raised(d, results)
    ELSE parse_Type_loop(bytes,
             [d EXCEPT !.pos = results.pos,
                       !.type = Append(d.type, Type(Len(d.type), params.val, results.val))],
             n - 1)

parse_Type_params(bytes, d, n, params) ==
    IF params.st # "ok" THEN Raised(d, params)
    ELSE parse_Type_results(bytes, d, n, params,
             ReadTypeVec(bytes, ReadLEB(bytes, params.pos, 32, FALSE)))

parse_Type_form(bytes, d, n, form) ==
    IF form.st # "ok" THEN Raised(d, form)
    ELSE IF PyVal(form.val) \notin ValueTypeCodes
    THEN [d EXCEPT !.st = "KeyError", !.pos = form.pos]
    ELSE parse_Type_params(bytes, d, n,
             ReadTypeVec(bytes, ReadLEB(bytes, form.pos, 32, FALSE)))

parse_Type_loop(bytes, d, n) ==
    IF n <= 0 THEN d
    ELSE parse_Type_form(bytes, d, n, ReadLEB(bytes, d.pos, 7, FALSE))

\* A parser that starts with count = self.rdr.read_LEB(32), as read.
parse_Type(bytes, d, count) ==
    IF count.st # "ok" THEN Raised(d, count)
    ELSE parse_Type_loop(bytes, [d EXCEPT !.pos = count.pos], PyVal(count.val))

\* parse_Import, kind 0x0: Function (sig, the type index as read).
import_Function(d, module, field, sig) ==
    IF sig.st # "ok" THEN Raised(d, sig)
    ELSE IF PyVal(sig.val) >= Len(d.type)
    THEN [d EXCEPT !.st = "IndexError", !.pos = sig.pos]
    ELSE [d EXCEPT !.pos = sig.pos,
                   !.import_list = Append(d.import_list,
                        Import(module, field, 0, PyVal(sig.val), 0, 0)),
                   !.function = Append(d.function,
                        FunctionImport(d.type[PyVal(sig.val) + 1], Len(d.import_list)))]

\* parse_Import, kinds 0x1 and 0x2: Table and Memory.  The limits are
\* recorded in import_list and nowhere else.
import_maximum(d, module, field, kind, initial, maximum) ==
    IF maximum.st # "ok" THEN Raised(d, maximum)
    ELSE [d EXCEPT !.pos = maximum.pos,
                   !.import_list = Append(d.import_list,
                        Import(module, field, kind, 0, PyVal(initial.val),
                               PyVal(maximum.val)))]

import_initial(bytes, d, module, field, kind, flags, initial) ==
    IF initial.st # "ok" THEN Raised(d, initial)
    ELSE import_maximum(d, module, field, kind, initial,
             IF BitAnd(PyVal(flags.val), 1) # 0
             THEN ReadLEB(bytes, initial.pos, 32, FALSE)
             ELSE Read("ok", initial.pos, PyInt(0)))

import_flags(bytes, d, module, field, kind, flags) ==
    IF flags.st # "ok" THEN Raised(d, flags)
    ELSE import_initial(bytes, d, module, field, kind, flags,
                        ReadLEB(bytes, flags.pos, 32, FALSE))

import_Table(bytes, d, module, field, etype) ==
    IF etype.st # "ok" THEN Raised(d, etype)
    ELSE import_flags(bytes, d, module, field, 1, ReadLEB(bytes, etype.pos, 32, FALSE))

\* parse_Import, kind 0x3: Global.
import_mutability(d, module, field, mutability) ==
    IF mutability.st # "ok" THEN Raised(d, mutability)
    ELSE [d EXCEPT !.pos = mutability.pos,
                   !.import_list = Append(d.import_list,
                        Import(module, field, 3, 0, 0, 0))]

import_Global(bytes, d, module, field, type) ==
    IF type.st # "ok" THEN Raised(d, type)
    ELSE import_mutability(d, module, field, ReadLEB(bytes, type.pos, 1, FALSE))

\* parse_Import: one entry, from its kind byte (as read) on.
import_kind(bytes, d, module, field, kind) ==
    IF kind.st # "ok" THEN Raised(d, kind)
    ELSE CASE kind.val = 0 ->
                import_Function(d, module, field, ReadLEB(bytes, kind.pos, 32, FALSE))
           [] kind.val = 1 ->
                import_Table(bytes, d, module, field, ReadLEB(bytes, kind.pos, 7, FALSE))
           [] kind.val = 2 ->
                import_flags(bytes, d, module, field, 2,
                             ReadLEB(bytes, kind.pos, 32, FALSE))
           [] kind.val = 3 ->
                import_Global(bytes, d, module, field, ReadByte(bytes, kind.pos))
           [] OTHER -> [d EXCEPT !.pos = kind.pos]

import_field(bytes, d, module, field) ==
    IF field.st # "ok" THEN Raised(d, field)
    ELSE import_kind(bytes, d, module.val, field.val, ReadByte(bytes, field.pos))

import_module(bytes, d, module) ==
    IF module.st # "ok" THEN Raised(d, module)
    ELSE import_field(bytes, d, module,
                      ReadName(bytes, ReadLEB(bytes, module.pos, 32, FALSE)))

\* parse_Import: n entries to go.
RECURSIVE parse_Import_loop(_, _, _)
import_next(bytes, d, n) ==
    IF d.st # "ok" THEN d ELSE parse_Import_loop(bytes, d, n - 1)

parse_Import_loop(bytes, d, n) ==
    IF n <= 0 THEN d
    ELSE import_next(bytes,
             import_module(bytes, d, ReadName(bytes, ReadLEB(bytes, d.pos, 32, FALSE))),
             n)

parse_Import(bytes, d, count) ==
    IF count.st # "ok" THEN Raised(d, count)
    ELSE parse_Import_loop(bytes, [d EXCEPT !.pos = count.pos], PyVal(count.val))

\* parse_Function: n entries to go; type is the index as read.
RECURSIVE parse_Function_loop(_, _, _)
function_type(bytes, d, n, type) ==
    IF type.st # "ok" THEN Raised(d, type)
    ELSE IF PyVal(type.val) >= Len(d.type)
    THEN [d EXCEPT !.st = "IndexError", !.pos = type.pos]
    ELSE parse_Function_loop(bytes,
             [d EXCEPT !.pos = type.pos,
                       !.function = Append(d.function,
                            Function(d.type[PyVal(type.val) + 1], Len(d.function),
                                     <<>>, 0, 0))],
             n - 1)

parse_Function_loop(bytes, d, n) ==
    IF n <= 0 THEN d
    ELSE function_type(bytes, d, n, ReadLEB(bytes, d.pos, 32, FALSE))

parse_Function(bytes, d, count) ==
    IF count.st # "ok" THEN Raised(d, count)
    ELSE parse_Function_loop(bytes, [d EXCEPT !.pos = count.pos], PyVal(count.val))

\* parse_Memory: flags and initial are read whatever count is.
memory_maximum(d, initial, maximum) ==
    IF maximum.st # "ok" THEN Raised(d, maximum)
    ELSE [d EXCEPT !.pos = maximum.pos, !.memory = Memory(PyVal(initial.val))]

memory_initial(bytes, d, flags, initial) ==
    IF initial.st # "ok" THEN Raised(d, initial)
    ELSE memory_maximum(d, initial,
             IF BitAnd(PyVal(flags.val), 1) # 0
             THEN ReadLEB(bytes, initial.pos, 32, FALSE)
             ELSE Read("ok", initial.pos, PyInt(0)))

memory_flags(bytes, d, flags) ==
    IF flags.st # "ok" THEN Raised(d, flags)
    ELSE memory_initial(bytes, d, flags, ReadLEB(bytes, flags.pos, 32, FALSE))

parse_Memory(bytes, d, count) ==
    IF count.st # "ok" THEN Raised(d, count)
    ELSE IF PyVal(count.val) > 1 THEN [d EXCEPT !.st = "AssertionError", !.pos = count.pos]
    ELSE memory_flags(bytes, d, ReadLEB(bytes, count.pos, 32, FALSE))

\* parse_Export: n entries to go; export_map keeps the index of each field.
RECURSIVE parse_Export_loop(_, _, _)
export_index(bytes, d, n, field, index) ==
    IF index.st # "ok" THEN Raised(d, index)
    ELSE parse_Export_loop(bytes,
             [d EXCEPT !.pos = index.pos,
                       !.export_map = DictSet(d.export_map, field.val, PyVal(index.val))],
             n - 1)

export_kind(bytes, d, n, field, kind) ==
    IF kind.st # "ok" THEN Raised(d, kind)
    ELSE export_index(bytes, d, n, field, ReadLEB(bytes, kind.pos, 32, FALSE))

export_field(bytes, d, n, field) ==
    IF field.st # "ok" THEN Raised(d, field)
    ELSE export_kind(bytes, d, n, field, ReadByte(bytes, field.pos))

parse_Export_loop(bytes, d, n) ==
    IF n <= 0 THEN d
    ELSE export_field(bytes, d, n, ReadName(bytes, ReadLEB(bytes, d.pos, 32, FALSE)))

parse_Export(bytes, d, count) ==
    IF count.st # "ok" THEN Raised(d, count)
    ELSE parse_Export_loop(bytes, [d EXCEPT !.pos = count.pos], PyVal(count.val))

\* parse_Code_body: the local declarations, n groups to go; val is locals.
RECURSIVE code_locals(_, _, _, _)
code_locals_type(bytes, n, acc, count, type) ==
    IF type.st # "ok" THEN Read(type.st, type.pos, acc)
    ELSE IF PyVal(count.val) > 0 /\ PyVal(type.val) \notin ValueTypeCodes
    THEN Read("KeyError", type.pos, acc)
    ELSE code_locals(bytes, type.pos, n - 1,
                     acc \o [c \in 1..PyVal(count.val) |-> VALUE_TYPE(PyVal(type.val))])

code_locals_count(bytes, n, acc, count) ==
    IF count.st # "ok" THEN Read(count.st, count.pos, acc)
    ELSE code_locals_type(bytes, n, acc, count, ReadLEB(bytes, count.pos, 7, FALSE))

code_locals(bytes, pos, n, acc) ==
    IF n <= 0 THEN Read("ok", pos, acc)
    ELSE code_locals_count(bytes, n, acc, ReadLEB(bytes, pos, 32, FALSE))

\* parse_Code_body from func = self.function[idx] on; maps is what find_blocks
\* leaves.
code_body_found(d, idx, func, maps) ==
    [d EXCEPT !.st = IF maps.st = "done" THEN "ok" ELSE maps.st,
              !.function[idx + 1] = func,
              !.block_map = maps.block_map,
              !.branch_map = maps.branch_map]

code_body_func(bytes, d, idx, locals, start, end, build) ==
    IF idx >= Len(d.function) THEN [d EXCEPT !.st = "IndexError"]
    ELSE IF d.function[idx + 1].cls # "Function" THEN [d EXCEPT !.st = "AssertionError"]
    ELSE code_body_found(d, idx,
             Function(d.function[idx + 1].type, d.function[idx + 1].index,
                      locals, start, end),
             find_blocks(bytes, start, end, d.block_map, d.branch_map, build))

\* start = self.rdr.pos; self.rdr.read_bytes(...); end = self.rdr.pos;
\* self.rdr.read_bytes(1)
code_body_code(bytes, d, idx, locals, code, build) ==
    IF code.st # "ok" THEN Raised(d, code)
    ELSE code_body_func(bytes, [d EXCEPT !.pos = code.pos + 1], idx, locals.val,
                        locals.pos, code.pos, build)

code_body_locals(bytes, d, idx, size, payload_start, locals, build) ==
    IF locals.st # "ok" THEN Raised(d, locals)
    ELSE code_body_code(bytes, d, idx, locals,
             read_bytes(bytes, locals.pos, size - (locals.pos - payload_start) - 1),
             build)

code_body_count(bytes, d, idx, body_size, local_count, build) ==
    IF local_count.st # "ok" THEN Raised(d, local_count)
    ELSE code_body_locals(bytes, d, idx, PyVal(body_size.val), body_size.pos,
             code_locals(bytes, local_count.pos, PyVal(local_count.val), <<>>), build)

code_body(bytes, d, idx, body_size, build) ==
    IF body_size.st # "ok" THEN Raised(d, body_size)
    ELSE code_body_count(bytes, d, idx, body_size,
                         ReadLEB(bytes, body_size.pos, 32, FALSE), build)

\* parse_Code: body idx of body_count, after import_cnt = len(self.import_list).
RECURSIVE code_bodies(_, _, _, _, _)
code_next(bytes, d, idx, body_count, build) ==
    IF d.st # "ok" THEN d ELSE code_bodies(bytes, d, idx + 1, body_count, build)

code_bodies(bytes, d, idx, body_count, build) ==
    IF idx >= body_count THEN d
    ELSE code_next(bytes,
             code_body(bytes, d, idx + Len(d.import_list),
                       ReadLEB(bytes, d.pos, 32, FALSE), build),
             idx, body_count, build)

parse_Code_section(bytes, d, body_count, build) ==
    IF body_count.st # "ok" THEN Raised(d, body_count)
    ELSE code_bodies(bytes, [d EXCEPT !.pos = body_count.pos], 0,
                     PyVal(body_count.val), build)

\* parse_Table, parse_Global, parse_Start, parse_Element, parse_Data and a
\* Custom section: self.rdr.read_bytes(length)
skip_section(bytes, d, length) == Raised(d, read_bytes(bytes, d.pos, length))

\* SECTION_NAMES has the ids 0..11.
SectionIds == 0..11

\* read_section from the dispatch on: id and length have been read.
section_body(bytes, d, id, build) ==
    CASE id = 1  -> parse_Type(bytes, d, ReadLEB(bytes, d.pos, 32, FALSE))
      [] id = 2  -> parse_Import(bytes, d, ReadLEB(bytes, d.pos, 32, FALSE))
      [] id = 3  -> parse_Function(bytes, d, ReadLEB(bytes, d.pos, 32, FALSE))
      [] id = 5  -> parse_Memory(bytes, d, ReadLEB(bytes, d.pos, 32, FALSE))
      [] id = 7  -> parse_Export(bytes, d, ReadLEB(bytes, d.pos, 32, FALSE))
      [] OTHER   -> d

section_length(bytes, d, id, length, build) ==
    IF length.st # "ok" THEN Raised(d, length)
    ELSE IF id = 10
    THEN parse_Code_section(bytes, [d EXCEPT !.pos = length.pos],
                            ReadLEB(bytes, length.pos, 32, FALSE), build)
    ELSE IF id \in {1, 2, 3, 5, 7}
    THEN section_body(bytes, [d EXCEPT !.pos = length.pos], id, build)
    ELSE skip_section(bytes, [d EXCEPT !.pos = length.pos], PyVal(length.val))

section_id(bytes, d, id, build) ==
    IF id.st # "ok" THEN Raised(d, id)
    ELSE IF PyVal(id.val) \notin SectionIds
    THEN [d EXCEPT !.st = "KeyError", !.pos = id.pos]
    ELSE section_length(bytes, d, PyVal(id.val), ReadLEB(bytes, id.pos, 32, FALSE), build)

\* Module.read_section()
read_section(bytes, d, build) == section_id(bytes, d, ReadLEB(bytes, d.pos, 7, FALSE), build)

\* Module.read_magic(), Module.read_version(): word is the read_word.
read_magic(d, word) ==
    IF word.st # "ok" THEN Raised(d, word)
    ELSE IF word.val # PyInt(1836278016) THEN [d EXCEPT !.st = "Exception", !.pos = word.pos]
    ELSE [d EXCEPT !.pos = word.pos]

read_version(d, word) ==
    IF word.st # "ok" THEN Raised(d, word)
    ELSE IF word.val # PyInt(12) THEN [d EXCEPT !.st = "Exception", !.pos = word.pos]
    ELSE [d EXCEPT !.pos = word.pos]

(***************************************************************************)
(* The interpreter.  m is the machine: the reader's position and the four *)
(* stacks, status ("idle", "running", "returned", or the exception that   *)
(* ended the run) and the value run returns.  An opcode handler gets m    *)
(* with pos at its opcode (cur_pos) and, where it starts by reading an    *)
(* immediate, that read (imm).                                             *)
(***************************************************************************)
Raise(m, exception) == [m EXCEPT !.status = exception]

\* A handler whose read of the immediate raised.
RaiseRead(m, imm) == [m EXCEPT !.status = imm.st, !.pos = imm.pos]

\* s.pop() n times
RECURSIVE PopN(_, _)
PopN(s, n) == IF n <= 0 THEN s ELSE PopN(Pop(s), n - 1)

\* The parameters alone: the declared locals stay on the local stack.
LocalCount_ParamsOnly(block) == Len(block.type.params)

\* len(block.type.params) + len(block.locals)
LocalCount(block) == Len(block.type.params) + Len(block.locals)

\* for i in range(n): self.localstack.pop()
PopLocals(m, n) ==
    IF n > Len(m.localstack)
    THEN [m EXCEPT !.localstack = <<>>, !.status = "IndexError"]
    ELSE [m EXCEPT !.localstack = PopN(m.localstack, n)]

\* do_branch after block was popped: turn r of its loop, then the jump.
RECURSIVE BranchOut(_, _, _, _)
BranchNext(m, block, r, depth) ==
    IF m.status # "running" THEN m
    ELSE IF r < depth
    THEN IF m.sigstack = <<>> THEN Raise(m, "IndexError")
         ELSE BranchOut([m EXCEPT !.sigstack = Pop(m.sigstack)], Top(m.sigstack),
                        r + 1, depth)
    ELSE BranchOut(m, block, r + 1, depth)

BranchOut(m, block, r, depth) ==
    IF r > depth
    THEN IF block.cls = "Block" THEN [m EXCEPT !.pos = block.label_addr]
         ELSE Raise(m, "Exception: br* in function unimplemented")
    ELSE BranchNext(PopLocals(m, LocalCount(block)), block, r, depth)

\* self.do_branch(depth)
do_branch(m, depth) ==
    IF m.sigstack = <<>> THEN Raise(m, "AssertionError")
    ELSE BranchOut([m EXCEPT !.sigstack = Pop(m.sigstack)], Top(m.sigstack), 0, depth)

\* The declared locals pushed first to last
ZeroLocals_FirstToLast(locals, idx) == [j \in 1..idx |-> [t |-> locals[j], v |-> PyInt(0)]]

\* The locals call_setup pushes for a function: its declared locals, last
\* first, each the zero of its type.
RECURSIVE ZeroLocals(_, _)
ZeroLocals(locals, idx) ==
    IF idx < 1 THEN <<>>
    ELSE <<[t |-> locals[idx], v |-> PyInt(0)]>> \o ZeroLocals(locals, idx - 1)

\* The second loop of call_setup: args[aidx] goes with t.params[idx].
RECURSIVE PushArgs(_, _, _, _, _)
PushArgs(m, fargs, params, idx, aidx) ==
    IF idx < 1 THEN m
    ELSE IF aidx > Len(fargs) THEN Raise(m, "IndexError")
    ELSE IF params[idx] # fargs[aidx].t THEN Raise(m, "AssertionError")
    ELSE PushArgs([m EXCEPT !.localstack = Append(m.localstack, fargs[aidx])],
                  fargs, params, idx - 1, aidx + 1)

\* self.call_setup(fidx, args); func is self.function[fidx].  A machine that
\* already holds MaxDepth frames has no memory for one more, and a
\* FunctionImport has no start.
call_setup_func(m, func, fargs, depth) ==
    IF Len(m.returnstack) >= depth THEN Raise(m, "MemoryError")
    ELSE IF func.cls = "FunctionImport"
    THEN Raise([m EXCEPT !.sigstack = Append(m.sigstack, func),
                         !.returnstack = Append(m.returnstack, m.pos)],
               "AttributeError")
    ELSE PushArgs([m EXCEPT !.sigstack = Append(m.sigstack, func),
                            !.returnstack = Append(m.returnstack, m.pos),
                            !.pos = func.start,
                            !.localstack = m.localstack \o
                                           ZeroLocals(func.locals, Len(func.locals))],
                  fargs, func.type.params, Len(func.type.params), 1)

call_setup(m, fidx, fargs, funcs, depth) ==
    IF fidx >= Len(funcs) THEN Raise(m, "IndexError")
    ELSE call_setup_func(m, funcs[fidx + 1], fargs, depth)

\* The arguments of run as I32 values.
RECURSIVE I32Args(_, _)
I32Args(strs, n) ==
    IF n = 0 THEN <<>> ELSE Append(I32Args(strs, n - 1), I32(PyInt(strs[n])))

\* run(name, args) up to its call of run_code_v12, on a reader left at pos.
\* run without the reset: the stacks are what the run before left
run_NoReset(pos, exports, entry, strs, funcs, depth) ==
    IF entry \notin DOMAIN exports
    THEN [pos |-> pos, stack |-> stack, localstack |-> localstack, sigstack |-> sigstack,
          returnstack |-> returnstack, status |-> "KeyError", result |-> None]
    ELSE call_setup([pos |-> pos, stack |-> stack, localstack |-> localstack,
                     sigstack |-> sigstack, returnstack |-> returnstack,
                     status |-> "running", result |-> None],
                    exports[entry], I32Args(strs, Len(strs)), funcs, depth)

run(pos, exports, entry, strs, funcs, depth) ==
    IF entry \notin DOMAIN exports
    THEN [pos |-> pos, stack |-> <<>>, localstack |-> <<>>, sigstack |-> <<>>,
          returnstack |-> <<>>, status |-> "KeyError", result |-> None]
    ELSE call_setup([pos |-> pos, stack |-> <<>>, localstack |-> <<>>,
                     sigstack |-> <<>>, returnstack |-> <<>>, status |-> "running",
                     result |-> None],
                    exports[entry], I32Args(strs, Len(strs)), funcs, depth)

\* int(s) for a string s of an optional sign and decimal digits; ok is FALSE
\* where int raises ValueError.
RECURSIVE DigitsValue(_, _)
DigitsValue(s, n) ==
    IF n = 0 THEN 0 ELSE 10 * DigitsValue(s, n - 1) + (s[n] - 48)

int(s) ==
    LET signed == s # <<>> /\ s[1] \in {43, 45}
        digits == IF signed THEN Tail(s) ELSE s
    IN  IF digits = <<>> \/ \E i \in DOMAIN digits : digits[i] \notin 48..57
        THEN [ok |-> FALSE, val |-> 0]
        ELSE [ok |-> TRUE,
              val |-> IF signed /\ s[1] = 45 THEN 0 - DigitsValue(digits, Len(digits))
                      ELSE DigitsValue(digits, Len(digits))]

\* The loop of run over args: fargs.append(I32(int(arg)))
RECURSIVE I32OfStrs(_, _)
I32OfStrs(strs, n) ==
    IF n = 0 THEN <<>> ELSE Append(I32OfStrs(strs, n - 1), I32(PyInt(int(strs[n]).val)))

\* run(name, args) for args as strings
run_strs(pos, exports, entry, strs, funcs, depth) ==
    IF \E i \in DOMAIN strs : ~int(strs[i]).ok
    THEN [pos |-> pos, stack |-> <<>>, localstack |-> <<>>, sigstack |-> <<>>,
          returnstack |-> <<>>, status |-> "ValueError", result |-> None]
    ELSE IF entry \notin DOMAIN exports
    THEN [pos |-> pos, stack |-> <<>>, localstack |-> <<>>, sigstack |-> <<>>,
          returnstack |-> <<>>, status |-> "KeyError", result |-> None]
    ELSE call_setup([pos |-> pos, stack |-> <<>>, localstack |-> <<>>,
                     sigstack |-> <<>>, returnstack |-> <<>>, status |-> "running",
                     result |-> None],
                    exports[entry], I32OfStrs(strs, Len(strs)), funcs, depth)

\* What entry_point prints: value_repr(res), "0x%x:%s" of the value and its
\* TYPE_NAME, and the traceback of an exception.  A line is kept as what it
\* is made from.
value_repr(val) == [line |-> "value", val |-> val.v, type |-> val.t]

Traceback(e) == [line |-> "traceback", val |-> PyInt(0), type |-> e]

\* m.dump(): sig_repr(bl[k]) for every block of block_map is BLOCK_NAMES of
\* its kind, and BLOCK_NAMES has no name for an else block (the strings are
\* built whether or not INFO is set).
dump(bmap) ==
    IF \E k \in DOMAIN bmap : bmap[k].kind = 4 THEN "KeyError" ELSE "ok"

\* block and loop
op_block(m, imm, bmap) ==
    IF imm.st # "ok" THEN RaiseRead(m, imm)
    ELSE IF m.pos \notin DOMAIN bmap THEN Raise([m EXCEPT !.pos = imm.pos], "KeyError")
    ELSE [m EXCEPT !.pos = imm.pos, !.sigstack = Append(m.sigstack, bmap[m.pos])]

\* if, once cond is popped: block is block_map[cur_pos].  Where the else
\* Block is pushed, block is that Block in the trace call that follows, whose
\* sig_repr(block) is BLOCK_NAMES[4]: KeyError (the string is built whether or
\* not TRACE is set).
if_cond(m, block, cond, bmap) ==
    IF PyTruth(cond.v) THEN [m EXCEPT !.sigstack = Append(m.sigstack, block)]
    ELSE IF block.label_addr \in DOMAIN bmap /\ bmap[block.label_addr].kind = 4
    THEN Raise([m EXCEPT !.sigstack = Append(m.sigstack, bmap[block.label_addr])],
               "KeyError")
    ELSE [m EXCEPT !.pos = block.label_addr]

op_if(m, imm, bmap) ==
    IF imm.st # "ok" THEN RaiseRead(m, imm)
    ELSE IF m.pos \notin DOMAIN bmap THEN Raise([m EXCEPT !.pos = imm.pos], "KeyError")
    ELSE IF m.stack = <<>> THEN Raise([m EXCEPT !.pos = imm.pos], "IndexError")
    ELSE if_cond([m EXCEPT !.pos = imm.pos, !.stack = Pop(m.stack)], bmap[m.pos],
                 Top(m.stack), bmap)

op_br(m, imm) ==
    IF imm.st # "ok" THEN RaiseRead(m, imm)
    ELSE do_branch([m EXCEPT !.pos = imm.pos], PyVal(imm.val))

op_br_if(m, imm) ==
    IF imm.st # "ok" THEN RaiseRead(m, imm)
    ELSE IF m.stack = <<>> THEN Raise([m EXCEPT !.pos = imm.pos], "IndexError")
    ELSE IF PyTruth(Top(m.stack).v)
    THEN do_branch([m EXCEPT !.pos = imm.pos, !.stack = Pop(m.stack)], PyVal(imm.val))
    ELSE [m EXCEPT !.pos = imm.pos, !.stack = Pop(m.stack)]

\* return: pop blocks until a Function is on top, then go to its end.
RECURSIVE op_return(_)
op_return_pop(m) == IF m.status # "running" THEN m ELSE op_return(m)

op_return(m) ==
    IF m.sigstack = <<>> THEN Raise([m EXCEPT !.pos = m.pos + 1], "AssertionError")
    ELSE IF Top(m.sigstack).cls = "Function"
    THEN [m EXCEPT !.pos = Top(m.sigstack).label_addr]
    ELSE op_return_pop(PopLocals([m EXCEPT !.sigstack = Pop(m.sigstack)],
                                 LocalCount(Top(m.sigstack))))

op_nop(m) == [m EXCEPT !.pos = m.pos + 1]

op_drop(m) ==
    IF m.stack = <<>> THEN Raise([m EXCEPT !.pos = m.pos + 1], "IndexError")
    ELSE [m EXCEPT !.pos = m.pos + 1, !.stack = Pop(m.stack)]

\* end and else, after the block's result (res, None if it has none) was
\* taken and its locals were popped.
\* end_block that returns from run at the end of any function, callee or not
end_block_ReturnsFromCallee(m, block, res) ==
    IF m.status # "running" \/ block.cls # "Function" THEN m
    ELSE IF m.returnstack = <<>> THEN Raise(m, "IndexError")
    ELSE [m EXCEPT !.returnstack = Pop(m.returnstack), !.status = "returned",
                   !.result = res]

end_block(m, block, res) ==
    IF m.status # "running" \/ block.cls # "Function" THEN m
    ELSE IF m.returnstack = <<>> THEN Raise(m, "IndexError")
    ELSE IF Len(m.returnstack) = 1
    THEN [m EXCEPT !.returnstack = <<>>, !.status = "returned", !.result = res]
    ELSE [m EXCEPT !.returnstack = Pop(m.returnstack), !.pos = Top(m.returnstack),
                   !.stack = IF res # None THEN Append(m.stack, res) ELSE m.stack]

\* end and else, after sigstack.pop() gave block.
end_result(m, block) ==
    IF Len(m.stack) < Len(block.type.results) THEN Raise(m, "Exception: stack underflow")
    ELSE IF Len(block.type.results) > 1
    THEN Raise(m, "Exception: multiple return values unimplemented")
    ELSE IF Len(block.type.results) = 0
    THEN end_block(PopLocals(m, LocalCount(block)), block, None)
    ELSE IF Top(m.stack).t # block.type.results[1]
    THEN Raise([m EXCEPT !.stack = Pop(m.stack)], "AssertionError")
    ELSE end_block(PopLocals([m EXCEPT !.stack = Pop(m.stack)], LocalCount(block)),
                   block, Top(m.stack))

op_end(m) ==
    IF m.sigstack = <<>> THEN Raise([m EXCEPT !.pos = m.pos + 1], "IndexError")
    ELSE end_result([m EXCEPT !.pos = m.pos + 1, !.sigstack = Pop(m.sigstack)],
                    Top(m.sigstack))

\* i32.const; imm is read_LEB(32, signed=True)
op_i32_const(m, imm) ==
    IF imm.st # "ok" THEN RaiseRead(m, imm)
    ELSE [m EXCEPT !.pos = imm.pos, !.stack = Append(m.stack, I32(imm.val))]

\* The index from 1 of localstack[-1-arg], 0 if there is none
LocalIndex(m, arg) == IF arg >= Len(m.localstack) THEN 0 ELSE Len(m.localstack) - arg

op_get_local(m, imm) ==
    IF imm.st # "ok" THEN RaiseRead(m, imm)
    ELSE IF LocalIndex(m, PyVal(imm.val)) = 0
    THEN Raise([m EXCEPT !.pos = imm.pos], "IndexError")
    ELSE [m EXCEPT !.pos = imm.pos,
                   !.stack = Append(m.stack, m.localstack[LocalIndex(m, PyVal(imm.val))])]

\* set_local (pop) and tee_local (no pop)
op_set_local(m, imm, pop) ==
    IF imm.st # "ok" THEN RaiseRead(m, imm)
    ELSE IF m.stack = <<>> THEN Raise([m EXCEPT !.pos = imm.pos], "IndexError")
    ELSE IF LocalIndex(m, PyVal(imm.val)) = 0
    THEN Raise([m EXCEPT !.pos = imm.pos,
                         !.stack = IF pop THEN Pop(m.stack) ELSE m.stack], "IndexError")
    ELSE [m EXCEPT !.pos = imm.pos,
                   !.stack = IF pop THEN Pop(m.stack) ELSE m.stack,
                   !.localstack[LocalIndex(m, PyVal(imm.val))] = Top(m.stack)]

\* call: the loop that pops one argument per parameter (idx from 1).
RECURSIVE PopArgs(_, _, _, _)
PopArgs(m, params, idx, fargs) ==
    IF idx > Len(params) THEN [m |-> m, fargs |-> fargs]
    ELSE IF m.stack = <<>> THEN [m |-> Raise(m, "IndexError"), fargs |-> fargs]
    ELSE IF params[idx] # Top(m.stack).t
    THEN [m |-> Raise([m EXCEPT !.stack = Pop(m.stack)],
                      "Exception: call signature mismatch"), fargs |-> fargs]
    ELSE PopArgs([m EXCEPT !.stack = Pop(m.stack)], params, idx + 1,
                 Append(fargs, Top(m.stack)))

call_popped(popped, func, depth) ==
    IF popped.m.status # "running" THEN popped.m
    ELSE call_setup_func(popped.m, func, popped.fargs, depth)

op_call(m, imm, funcs, depth) ==
    IF imm.st # "ok" THEN RaiseRead(m, imm)
    ELSE IF PyVal(imm.val) >= Len(funcs)
    THEN Raise([m EXCEPT !.pos = imm.pos], "IndexError")
    ELSE call_popped(PopArgs([m EXCEPT !.pos = imm.pos],
                             funcs[PyVal(imm.val) + 1].type.params, 1, <<>>),
                     funcs[PyVal(imm.val) + 1], depth)

\* "core.DEBUG", "core.writeline", "core.readline"
CoreDEBUG == <<99, 111, 114, 101, 46, 68, 69, 66, 85, 71>>

CoreWriteline == <<99, 111, 114, 101, 46, 119, 114, 105, 116, 101, 108, 105, 110, 101>>

CoreReadline == <<99, 111, 114, 101, 46, 114, 101, 97, 100, 108, 105, 110, 101>>

\* What a host call leaves: st is "ok" or the exception, results what it
\* returns, memory the module's memory, printed its lines on standard
\* output, stdin the reads still to come.
HostCall(st, results, mem, printed, chunks) ==
    [st |-> st, results |-> results, memory |-> mem, printed |-> printed, stdin |-> chunks]

\* host_args = [a.val for a in args]; host_args.reverse()
\* HostArgs without the reverse: the arguments as they were popped
HostArgs_AsPopped(fargs, n) == [i \in 1..n |-> fargs[i].v]

RECURSIVE HostArgs(_, _)
HostArgs(fargs, n) == IF n = 0 THEN <<>> ELSE <<fargs[n].v>> \o HostArgs(fargs, n - 1)

\* readline(prompt): os.read(0, 255) until what was read ends with a newline;
\* chunks are what the reads return, none at the end of the input.
RECURSIVE readline(_, _)
readline(chunks, res) ==
    IF chunks = <<>> THEN [eof |-> TRUE, res |-> res, stdin |-> chunks]
    ELSE IF Head(chunks)[Len(Head(chunks))] = 10
    THEN [eof |-> FALSE,
          res |-> res \o SubSeq(Head(chunks), 1, Len(Head(chunks)) - 1),
          stdin |-> Tail(chunks)]
    ELSE readline(Tail(chunks), res \o Head(chunks))

\* for i in range(length): mem.bytes[pos] = ord(res[i]); pos += 1
RECURSIVE StoreChars(_, _, _, _)
StoreChars(mem, pos, res, i) ==
    IF i > Len(res) THEN [ok |-> TRUE, mem |-> mem]
    ELSE IF ~MemIndexOk(mem, pos) THEN [ok |-> FALSE, mem |-> mem]
    ELSE StoreChars(MemSet(mem, pos, res[i]), pos + 1, res, i + 1)

\* The body of core.readline's try, once the line was read (res, cut to
\* max_length) and the length word was set to 0 (zeroed).
readline_store(zeroed, addr, res, chunks, prompt) ==
    IF ~zeroed.ok THEN HostCall("IndexError", <<>>, zeroed.mem, prompt, chunks)
    ELSE IF ~StoreChars(zeroed.mem, addr + 4, res, 1).ok
    THEN HostCall("IndexError", <<>>, StoreChars(zeroed.mem, addr + 4, res, 1).mem,
                  prompt, chunks)
    ELSE IF ~write_I32(StoreChars(zeroed.mem, addr + 4, res, 1).mem, addr,
                       PyInt(Len(res))).ok
    THEN HostCall("IndexError", <<>>,
                  write_I32(StoreChars(zeroed.mem, addr + 4, res, 1).mem, addr,
                            PyInt(Len(res))).mem, prompt, chunks)
    ELSE HostCall("ok", <<I32(PyInt(Len(res)))>>,
                  write_I32(StoreChars(zeroed.mem, addr + 4, res, 1).mem, addr,
                            PyInt(Len(res))).mem, prompt, chunks)

core_readline_read(mem, addr, max_length, line, prompt) ==
    IF line.eof THEN HostCall("ok", <<I32(PyInt(-1))>>, mem, prompt, line.stdin)
    ELSE readline_store(write_I32(mem, addr, PyInt(0)), addr,
                        SubSeq(line.res, 1, IF max_length < Len(line.res) THEN max_length
                                            ELSE Len(line.res)),
                        line.stdin, prompt)

core_readline(mem, host_args, chunks) ==
    IF Len(host_args) < 2 THEN HostCall("IndexError", <<>>, mem, <<>>, chunks)
    ELSE IF PyIsNeg(host_args[1]) \/ PyIsNeg(host_args[2])
    THEN HostCall("AssertionError", <<>>, mem, <<>>, chunks)
    ELSE core_readline_read(mem, PyVal(host_args[1]), PyVal(host_args[2]),
                            readline(chunks, <<>>),
                            <<[line |-> "prompt", val |-> <<>>, type |-> "user> "]>>)

\* core.writeline, once length was read
core_writeline_length(mem, addr, length, chunks) ==
    IF ~length.ok THEN HostCall("IndexError", <<>>, mem, <<>>, chunks)
    ELSE HostCall("ok", <<>>, mem,
                  <<[line |-> "writeline",
                     val |-> MemSlice(mem, addr + 4, addr + 4 + PyVal(length.val)),
                     type |-> ""]>>, chunks)

core_writeline(mem, host_args, chunks) ==
    IF host_args = <<>> THEN HostCall("IndexError", <<>>, mem, <<>>, chunks)
    ELSE IF PyIsNeg(host_args[1]) THEN HostCall("AssertionError", <<>>, mem, <<>>, chunks)
    ELSE core_writeline_length(mem, PyVal(host_args[1]),
                               read_I32(mem, PyVal(host_args[1])), chunks)

core_DEBUG(mem, host_args, chunks) ==
    IF Len(host_args) \in {1, 2}
    THEN HostCall("ok", <<>>, mem,
                  <<[line |-> "DEBUG", val |-> host_args, type |-> ""]>>, chunks)
    ELSE HostCall("Exception: DEBUG called with > 2 args", <<>>, mem, <<>>, chunks)

\* call_import(mem, module, field, args), with host_args for args
call_import(mem, fname, host_args, chunks) ==
    CASE fname = CoreDEBUG     -> core_DEBUG(mem, host_args, chunks)
      [] fname = CoreWriteline -> core_writeline(mem, host_args, chunks)
      [] fname = CoreReadline  -> core_readline(mem, host_args, chunks)
      [] OTHER -> HostCall("Exception: invalid import", <<>>, mem, <<>>, chunks)

\* PushResults that pushes whatever the host returned, unchecked
RECURSIVE PushResults_Unchecked(_, _, _, _)
PushResults_Unchecked(m, rtypes, results, idx) ==
    IF idx > Len(results) THEN m
    ELSE PushResults_Unchecked([m EXCEPT !.stack = Append(m.stack, results[idx])], rtypes,
                               results, idx + 1)

\* call on a FunctionImport: the loop over t.results (idx from 1) that
\* pushes what the host returned.
RECURSIVE PushResults(_, _, _, _)
PushResults(m, rtypes, results, idx) ==
    IF idx > Len(rtypes) THEN m
    ELSE IF idx > Len(results) \/ rtypes[idx] # results[idx].t
    THEN Raise(m, "Exception: return signature mismatch")
    ELSE PushResults([m EXCEPT !.stack = Append(m.stack, results[idx])], rtypes,
                     results, idx + 1)

\* What call leaves besides the machine (w): memory, out, host and stdin.
World(mem, printed, calls, chunks) ==
    [memory |-> mem, out |-> printed, host |-> calls, stdin |-> chunks]

Called(m, w) == [m |-> m, w |-> w]

\* call on a FunctionImport, once host_import_func returned or raised (h)
call_host_returned(m, func, fname, host_args, h, w) ==
    Called(IF h.st # "ok" THEN Raise(m, h.st)
           ELSE PushResults(m, func.type.results, h.results, 1),
           World(h.memory, w.out \o h.printed,
                 Append(w.host, [fname |-> fname, host_args |-> host_args]), h.stdin))

call_host(m, func, fname, host_args, w) ==
    call_host_returned(m, func, fname, host_args,
                       call_import(w.memory, fname, host_args, w.stdin), w)

\* call on a FunctionImport, once the arguments are popped; imp is the Import
\* with its module and field.
call_import_popped(popped, func, imp, w) ==
    IF popped.m.status # "running" THEN Called(popped.m, w)
    ELSE call_host(popped.m, func, imp.module \o <<46>> \o imp.field,
                   HostArgs(popped.fargs, Len(popped.fargs)), w)

\* call, on a Function or a FunctionImport
call(m, imm, funcs, depth, imports, w) ==
    IF imm.st # "ok" \/ PyVal(imm.val) >= Len(funcs) THEN Called(op_call(m, imm, funcs, depth), w)
    ELSE IF funcs[PyVal(imm.val) + 1].cls = "Function"
    THEN Called(op_call(m, imm, funcs, depth), w)
    ELSE call_import_popped(PopArgs([m EXCEPT !.pos = imm.pos],
                                    funcs[PyVal(imm.val) + 1].type.params, 1, <<>>),
                            funcs[PyVal(imm.val) + 1],
                            imports[funcs[PyVal(imm.val) + 1].index + 1], w)

\* int(a.val == b.val) and the like
PyBool(b) == IF b THEN PyInt(1) ELSE PyInt(0)

\* The i32 operations: res for opcode on a.val and b.val
i32_result(opcode, a, b) ==
    CASE opcode = 64 -> PyAdd(a, b)
      [] opcode = 65 -> PySub(a, b)
      [] opcode = 66 -> PyMul(a, b)
      [] opcode = 77 -> PyBool(PyEq(a, b))
      [] opcode = 78 -> PyBool(~PyEq(a, b))
      [] OTHER       -> PyBool(PyLt(a, b))

I32Implemented == {64, 65, 66, 77, 78, 79}

i32_binary(m, opcode, a, b) ==
    IF a.t # "i32" \/ b.t # "i32" THEN Raise(m, "AssertionError")
    ELSE IF opcode \notin I32Implemented THEN Raise(m, "Exception: unimplemented")
    ELSE [m EXCEPT !.stack = Append(m.stack, I32(i32_result(opcode, a.v, b.v)))]

op_i32(m, opcode) ==
    IF Len(m.stack) < 2 THEN Raise([m EXCEPT !.pos = m.pos + 1, !.stack = <<>>], "IndexError")
    ELSE i32_binary([m EXCEPT !.pos = m.pos + 1, !.stack = Pop(Pop(m.stack))], opcode,
                    m.stack[Len(m.stack) - 1], Top(m.stack))

\* OPERATOR_INFO[opcode][0] in the trace call at the head of the loop: the
\* string is built whether or not TRACE is set, so a byte that is not in
\* OPERATOR_INFO raises KeyError before any handler is chosen.
InOperatorInfo(opcode) == ImmType(opcode) # "KeyError"

\* unreachable
op_unreachable(m) == Raise([m EXCEPT !.pos = m.pos + 1], "Exception: Immediate trap")

\* The handlers that only raise Exception("... unimplemented"): select,
\* br_table, get_global, set_global, call_indirect, the memory immediates,
\* current_memory, grow_memory, the f32 and the f64 operations.
UnimplementedOps == {5, 8, 187, 188, 23, 59, 57} \cup (32..54) \cup (117..136) \cup (137..156)

op_unimplemented(m) == Raise([m EXCEPT !.pos = m.pos + 1], "Exception: unimplemented")

\* The else at the end of the chain: the opcodes of OPERATOR_INFO that no
\* branch takes.
UnrecognizedOps == (157..181) \ {166, 176}

op_unrecognized(m) == Raise([m EXCEPT !.pos = m.pos + 1], "Exception: unrecognized opcode")

\* i64.const; imm is read_LEB(64, signed=True)
op_i64_const(m, imm) ==
    IF imm.st # "ok" THEN RaiseRead(m, imm)
    ELSE [m EXCEPT !.pos = imm.pos, !.stack = Append(m.stack, I64(imm.val))]

\* unpack_f64(bits): struct.pack('q', bits) takes a signed 64-bit int, and
\* bytes2uint64 gave an unsigned one, so CPython raises struct.error for the
\* bits of a negative double; RPython's float_unpack takes them.
unpack_f64(bits, build) ==
    IF build = "CPython" /\ PyBit(bits, 63) = 1 THEN [ok |-> FALSE, val |-> bits]
    ELSE [ok |-> TRUE, val |-> bits]

\* f64.const; r is read_bytes(8)
op_f64_const(m, r, build) ==
    IF r.st # "ok" THEN RaiseRead(m, r)
    ELSE IF ~bytes2uint64(r.val).ok THEN Raise([m EXCEPT !.pos = r.pos], "IndexError")
    ELSE IF ~unpack_f64(bytes2uint64(r.val).val, build).ok
    THEN Raise([m EXCEPT !.pos = r.pos], "struct.error")
    ELSE [m EXCEPT !.pos = r.pos,
                   !.stack = Append(m.stack, F64(bytes2uint64(r.val).val))]

\* f32.const; r is read_bytes(4)
op_f32_const(m, r) ==
    IF r.st # "ok" THEN RaiseRead(m, r)
    ELSE IF ~bytes2uint32(r.val).ok THEN Raise([m EXCEPT !.pos = r.pos], "IndexError")
    ELSE [m EXCEPT !.pos = r.pos,
                   !.stack = Append(m.stack, F32(bytes2uint32(r.val).val))]

\* The i64 operations: res for opcode on a.val and b.val
I64Implemented == {91, 92, 93, 94, 110}

i64_result(opcode, a, b) ==
    CASE opcode = 91 -> I64(PyAdd(a, b))
      [] opcode = 92 -> I64(PySub(a, b))
      [] opcode = 93 -> I64(PyMul(a, b))
      [] opcode = 94 -> I64(PyFloorDiv(a, b))
      [] OTHER       -> I32(PyBool(PyLt(b, a)))

\* i64_binary whose div_s by 0 pushes 0
i64_binary_DivZeroPushes(m, opcode, a, b) ==
    IF a.t # "i64" \/ b.t # "i64" THEN Raise(m, "AssertionError")
    ELSE IF opcode \notin I64Implemented THEN Raise(m, "Exception: unimplemented")
    ELSE IF opcode = 94 /\ b.v = PyInt(0)
    THEN [m EXCEPT !.stack = Append(m.stack, I64(PyInt(0)))]
    ELSE [m EXCEPT !.stack = Append(m.stack, i64_result(opcode, a.v, b.v))]

i64_binary(m, opcode, a, b) ==
    IF a.t # "i64" \/ b.t # "i64" THEN Raise(m, "AssertionError")
    ELSE IF opcode \notin I64Implemented THEN Raise(m, "Exception: unimplemented")
    ELSE IF opcode = 94 /\ b.v = PyInt(0) THEN Raise(m, "ZeroDivisionError")
    ELSE [m EXCEPT !.stack = Append(m.stack, i64_result(opcode, a.v, b.v))]

\* op_i64 that takes the top of the stack for a and the one under it for b
op_i64_TopFirst(m, opcode) ==
    IF Len(m.stack) < 2 THEN Raise([m EXCEPT !.pos = m.pos + 1, !.stack = <<>>], "IndexError")
    ELSE i64_binary([m EXCEPT !.pos = m.pos + 1, !.stack = Pop(Pop(m.stack))], opcode,
                    Top(m.stack), m.stack[Len(m.stack) - 1])

op_i64(m, opcode) ==
    IF Len(m.stack) < 2 THEN Raise([m EXCEPT !.pos = m.pos + 1, !.stack = <<>>], "IndexError")
    ELSE i64_binary([m EXCEPT !.pos = m.pos + 1, !.stack = Pop(Pop(m.stack))], opcode,
                    m.stack[Len(m.stack) - 1], Top(m.stack))

\* i64.extend_s/i32
op_i64_extend_s(m) ==
    IF m.stack = <<>> THEN Raise([m EXCEPT !.pos = m.pos + 1], "IndexError")
    ELSE IF Top(m.stack).t # "i32"
    THEN Raise([m EXCEPT !.pos = m.pos + 1, !.stack = Pop(m.stack)], "AssertionError")
    ELSE [m EXCEPT !.pos = m.pos + 1,
                   !.stack = Append(Pop(m.stack), I64(Top(m.stack).v))]

\* f64.convert_s/i64
op_f64_convert_s(m) ==
    IF m.stack = <<>> THEN Raise([m EXCEPT !.pos = m.pos + 1], "IndexError")
    ELSE IF Top(m.stack).t # "i64"
    THEN Raise([m EXCEPT !.pos = m.pos + 1, !.stack = Pop(m.stack)], "AssertionError")
    ELSE [m EXCEPT !.pos = m.pos + 1,
                   !.stack = Append(Pop(m.stack), F64(FloatBits(Top(m.stack).v)))]

(***************************************************************************)
(* What each group of variables holds while another component runs.        *)
(***************************************************************************)
LEBIdle == [st |-> "idle", maxbits |-> 0, signed |-> FALSE, result |-> PyInt(0),
            shift |-> 0, bcnt |-> 0, byte |-> 0, startpos |-> 0, pos |-> 0]

NoLEB == leb = LEBIdle /\ input = 0

NoMemory == memory = Memory(1) /\ memlog = <<>>

NoPrePass == fb = FBIdle /\ block_map = <<>> /\ branch_map = <<>>

NoRun ==
    /\ stack = <<>> /\ localstack = <<>> /\ sigstack = <<>> /\ returnstack = <<>>
    /\ status = "idle" /\ result = None /\ name = "" /\ args = <<>>
    /\ function = <<>> /\ export_map = <<>>

\* entry_point is not running.
EPIdle == [st |-> "idle", error |-> "", ret |-> -1]

NoEnv ==
    /\ types = <<>> /\ import_list = <<>>
    /\ ep = EPIdle /\ argv = <<>> /\ out = <<>> /\ host = <<>> /\ stdin = <<>>

(***************************************************************************)
(* SpecLEB: a Reader over the signed LEB128 encoding of a value, and       *)
(* read_LEB taken one loop turn at a time.                                 *)
(***************************************************************************)
\* The canonical (shortest) signed LEB128 encoding of v.
RECURSIVE SLEB128(_)
SLEB128(v) ==
    LET b    == v % 128
        rest == v \div 128
    IN  IF (rest = 0 /\ b < 64) \/ (rest = -1 /\ b >= 64) THEN <<b>>
        ELSE <<b + 128>> \o SLEB128(rest)

MaxSmall == 70

LEBValues ==
    (-MaxSmall..MaxSmall)
    \cup {127, 128, -128, -129, 300, -300, 8191, 8192, -8192, -8193, 1048576,
          -1048576, 134217727, 134217728, -134217728, -134217729,
          2147483647, -2147483647, -2147483647 - 1}

LEBWidths == {7, 32, 64}

InitLEB ==
    /\ input \in LEBValues
    /\ rdr_bytes = SLEB128(input)
    /\ rdr_pos = 0
    /\ leb = LEBIdle
    /\ NoMemory /\ NoPrePass /\ NoRun
    /\ NoEnv

LEBCall ==
    /\ leb.st = "idle"
    /\ \E maxbits \in LEBWidths, signed \in BOOLEAN :
          leb' = read_LEB_enter(rdr_pos, maxbits, signed)
    /\ UNCHANGED <<readerVars, input, memVars, preVars, runVars, envVars>>

LEBIter ==
    /\ leb.st = "loop"
    /\ leb' = read_LEB_iter(rdr_bytes, leb)
    /\ rdr_pos' = leb'.pos
    /\ UNCHANGED <<rdr_bytes, input, memVars, preVars, runVars, envVars>>

LEBReturn ==
    /\ leb.st = "break"
    /\ leb' = read_LEB_return(leb)
    /\ UNCHANGED <<readerVars, input, memVars, preVars, runVars, envVars>>

NextLEB == LEBCall \/ LEBIter \/ LEBReturn

SpecLEB == InitLEB /\ [][NextLEB]_vars

(***************************************************************************)
(* SpecLEBLong: a Reader over encodings of every length up to               *)
(* MaxContinuation bytes with the continuation bit and a terminating byte.  *)
(***************************************************************************)
MaxContinuation == 11

\* n bytes with the continuation bit set, and a byte without it
LongEncoding(n, more, last) == [i \in 1..n |-> more] \o <<last>>

LongEncodings ==
    {LongEncoding(n, more, last) : n \in 0..MaxContinuation, more \in {128, 255},
                                   last \in {0, 127}}

InitLEBLong ==
    /\ input = 0
    /\ rdr_bytes \in LongEncodings
    /\ rdr_pos = 0
    /\ leb = LEBIdle
    /\ NoMemory /\ NoPrePass /\ NoRun
    /\ NoEnv

SpecLEBLong == InitLEBLong /\ [][NextLEB]_vars

(***************************************************************************)
(* SpecMem: a one-page Memory and a bounded sequence of helper calls.      *)
(***************************************************************************)
MaxCalls == 2

MemAddrs == {0, 8, PageSize - 8, PageSize - 2}

I32Values == {0, 1, -1, 305419896, 2147483647, -2147483647 - 1}

I64Values ==
    {PyInt(0), PyInt(-1), PyInt(305419896), PyShl(PyInt(1), 32),
     PyAdd(PyShl(PyInt(16909060), 32), PyInt(84281096)),
     PyNeg(PyShl(PyInt(1), 63))}

MemCall(op, pos, val, ok, ret) ==
    [op |-> op, pos |-> pos, val |-> val, ok |-> ok, ret |-> ret]

InitMem ==
    /\ memory = Memory(1)
    /\ memlog = <<>>
    /\ rdr_bytes = <<>> /\ rdr_pos = 0
    /\ NoLEB /\ NoPrePass /\ NoRun
    /\ NoEnv

MemWriteI32 ==
    /\ Len(memlog) < MaxCalls
    /\ \E pos \in MemAddrs, v \in I32Values :
          LET r == write_I32(memory, pos, PyInt(v))
          IN  /\ memory' = r.mem
              /\ memlog' = Append(memlog,
                     MemCall("write_I32", pos, PyInt(v), r.ok, PyInt(0)))
    /\ UNCHANGED <<readerVars, lebVars, preVars, runVars, envVars>>

MemReadI32 ==
    /\ Len(memlog) < MaxCalls
    /\ \E pos \in MemAddrs :
          LET r == read_I32(memory, pos)
          IN  memlog' = Append(memlog, MemCall("read_I32", pos, PyInt(0), r.ok, r.val))
    /\ UNCHANGED <<memory, readerVars, lebVars, preVars, runVars, envVars>>

MemWriteI64 ==
    /\ Len(memlog) < MaxCalls
    /\ \E pos \in MemAddrs, v \in I64Values :
          LET r == write_I64(memory, pos, v)
          IN  /\ memory' = r.mem
              /\ memlog' = Append(memlog, MemCall("write_I64", pos, v, r.ok, PyInt(0)))
    /\ UNCHANGED <<readerVars, lebVars, preVars, runVars, envVars>>

MemReadI64 ==
    /\ Len(memlog) < MaxCalls
    /\ \E pos \in MemAddrs :
          LET r == read_I64(memory, pos)
          IN  memlog' = Append(memlog, MemCall("read_I64", pos, PyInt(0), r.ok, r.val))
    /\ UNCHANGED <<memory, readerVars, lebVars, preVars, runVars, envVars>>

NextMem == MemWriteI32 \/ MemReadI32 \/ MemWriteI64 \/ MemReadI64

SpecMem == InitMem /\ [][NextMem]_vars

(***************************************************************************)
(* SpecPre: find_blocks over one function body, one loop turn at a time.   *)
(* The body is every sequence of up to MaxBody instructions out of Instrs, *)
(* or one of ExtraBodies, followed by the function's end; the function     *)
(* starts at offset 0 and ends at its last byte.                           *)
(***************************************************************************)
MaxBody == 4

\* block, loop, if, else, end, br 0, br 1, nop
Instrs == {<<1, 0>>, <<2, 0>>, <<3, 0>>, <<4>>, <<15>>, <<6, 0>>, <<6, 1>>, <<10>>}

RECURSIVE BodiesOf(_)
BodiesOf(n) ==
    IF n = 0 THEN {<<>>}
    ELSE LET shorter == BodiesOf(n - 1)
         IN  shorter \cup {b \o i : b \in shorter, i \in Instrs}

ExtraBodies ==
    { \* block; if; else; end; br 0; end
      <<1, 0, 3, 0, 4, 15, 6, 0, 15>>,
      \* block; br 0; end; block; end
      <<1, 0, 6, 0, 15, 1, 0, 15>>,
      \* block; loop; br_if 1; br 0; end; end
      <<1, 0, 2, 0, 7, 1, 6, 0, 15, 15>>,
      \* block; i32.const 0; br_table [0, 1] 0; end
      <<1, 0, 2, 0, 16, 0, 8, 2, 0, 1, 0, 15, 15>> }

InitPre ==
    /\ rdr_bytes \in {b \o <<15>> : b \in BodiesOf(MaxBody) \cup ExtraBodies}
    /\ rdr_pos = Len(rdr_bytes)
    /\ fb = FBIdle
    /\ block_map = <<>>
    /\ branch_map = <<>>
    /\ NoLEB /\ NoMemory /\ NoRun
    /\ NoEnv

\* self.find_blocks(func, start, end)
FBCall ==
    /\ fb.st = "idle"
    /\ fb' = find_blocks_enter(0, Len(rdr_bytes) - 1)
    /\ UNCHANGED <<readerVars, lebVars, memVars, block_map, branch_map, runVars, envVars>>

PassA ==
    /\ fb.st = "passA"
    /\ fb' = passA_iter(rdr_bytes, fb)
    /\ UNCHANGED <<readerVars, lebVars, memVars, block_map, branch_map, runVars, envVars>>

CreateBlocks ==
    /\ fb.st = "create"
    /\ \E build \in Builds : fb' = create_blocks(fb, build)
    /\ block_map' = CreatedBlocks(fb, block_map)
    /\ UNCHANGED <<readerVars, lebVars, memVars, branch_map, runVars, envVars>>

PassB ==
    /\ fb.st = "passB"
    /\ LET r == passB_iter(rdr_bytes, fb, block_map, branch_map)
       IN  fb' = r.f /\ branch_map' = r.brmap
    /\ UNCHANGED <<readerVars, lebVars, memVars, block_map, runVars, envVars>>

NextPre == FBCall \/ PassA \/ CreateBlocks \/ PassB

SpecPre == InitPre /\ [][NextPre]_vars

(***************************************************************************)
(* SpecDec: entry_point decodes a module image: Module(...), read_magic,  *)
(* read_version, and read_section while the reader is not at the end.     *)
(* The images are the header and up to MaxSections sections of a menu.     *)
(***************************************************************************)
MaxSections == 2

\* 0x00 'a' 's' 'm', version 0xc
Header == <<0, 97, 115, 109, 12, 0, 0, 0>>

\* Type (i32) -> i32; Function 0 of type 0; Export "f" of function 0; Code
\* with the body `get_local 0; end`.
TypeSection == <<1, 6, 1, 32, 1, 1, 1, 1>>

FunctionSection == <<3, 2, 1, 0>>

ExportSection == <<7, 5, 1, 1, 102, 0, 0>>

CodeSection == <<10, 6, 1, 4, 0, 20, 0, 15>>

\* Memory sections: initial 0, initial 2, initial 3 with maximum 4.
MemorySections == {<<5, 3, 1, 0, 0>>, <<5, 3, 1, 0, 2>>, <<5, 4, 1, 1, 3, 4>>}

\* Imports "m"."f": a Memory of initial 2, and a function of type 0.
ImportSections ==
    {<<2, 8, 1, 1, 109, 1, 102, 2, 0, 2>>, <<2, 7, 1, 1, 109, 1, 102, 0, 0>>}

\* Custom, Table, Global, Start, Element and Data sections, and one of an id
\* that SECTION_NAMES does not have, of lengths 0 to 2.
SkippedSections ==
    {<<0, 2, 1, 97>>, <<0, 0>>, <<4, 1, 0>>, <<6, 0>>, <<8, 1, 0>>, <<9, 2, 0, 0>>,
     <<11, 0>>, <<11, 1, 7>>, <<12, 1, 0>>}

SectionMenu ==
    {TypeSection, FunctionSection, ExportSection, CodeSection}
        \cup MemorySections \cup ImportSections \cup SkippedSections

RECURSIVE SectionsOf(_)
SectionsOf(n) ==
    IF n = 0 THEN {<<>>}
    ELSE SectionsOf(n - 1) \cup {b \o s : b \in SectionsOf(n - 1), s \in SectionMenu}

\* A whole module, and images with a bad or short header.
WholeModule == Header \o TypeSection \o FunctionSection \o ExportSection \o CodeSection

\* A module that imports a Memory "m"."f" of initial 2 and has one native
\* function main : () -> i32 of body `i32.const 5; end`.
MemoryImportModule ==
    Header \o <<1, 5, 1, 32, 0, 1, 1>> \o <<2, 8, 1, 1, 109, 1, 102, 2, 0, 2>>
           \o <<3, 2, 1, 0>> \o <<7, 8, 1, 4, 109, 97, 105, 110, 0, 0>>
           \o <<10, 6, 1, 4, 0, 16, 5, 15>>

\* The same module with the import of a function "m"."f" of type 0 in the
\* place of the Memory; main is function 1.
FunctionImportModule ==
    Header \o <<1, 5, 1, 32, 0, 1, 1>> \o <<2, 7, 1, 1, 109, 1, 102, 0, 0>>
           \o <<3, 2, 1, 0>> \o <<7, 8, 1, 4, 109, 97, 105, 110, 0, 1>>
           \o <<10, 6, 1, 4, 0, 16, 5, 15>>

Images ==
    {Header \o b : b \in SectionsOf(MaxSections)}
        \cup {WholeModule, MemoryImportModule, FunctionImportModule, <<0, 97, 115>>, <<0, 97, 115, 109, 13, 0, 0, 0>>,
              <<1, 97, 115, 109, 12, 0, 0, 0>>}

\* The module of the current state, and the state a module becomes; next is
\* where entry_point goes on when nothing was raised.
D ==
    [st |-> "ok", pos |-> rdr_pos, type |-> types, import_list |-> import_list,
     function |-> function, export_map |-> export_map, memory |-> memory,
     block_map |-> block_map, branch_map |-> branch_map]

\* except Exception as e: ...; return 1
Except(e) == [st |-> "exit", error |-> e, ret |-> 1]

Decodes(d, next) ==
    /\ rdr_pos' = d.pos
    /\ types' = d.type
    /\ import_list' = d.import_list
    /\ function' = d.function
    /\ export_map' = d.export_map
    /\ memory' = d.memory
    /\ block_map' = d.block_map
    /\ branch_map' = d.branch_map
    /\ ep' = IF d.st = "ok" THEN [ep EXCEPT !.st = next] ELSE Except(d.st)
    /\ out' = IF d.st = "ok" THEN out ELSE Append(out, Traceback(d.st))
    /\ UNCHANGED <<rdr_bytes, lebVars, memlog, fb, stack, localstack, sigstack,
                   returnstack, status, result, name, args, argv, host, stdin>>

InitDec ==
    /\ rdr_bytes \in Images
    /\ rdr_pos = Module.pos
    /\ types = Module.type
    /\ import_list = Module.import_list
    /\ function = Module.function
    /\ export_map = Module.export_map
    /\ memory = Module.memory
    /\ block_map = Module.block_map
    /\ branch_map = Module.branch_map
    /\ ep = [st |-> "magic", error |-> "", ret |-> -1]
    /\ argv = <<>> /\ out = <<>> /\ host = <<>> /\ stdin = <<>>
    /\ memlog = <<>> /\ fb = FBIdle
    /\ stack = <<>> /\ localstack = <<>> /\ sigstack = <<>> /\ returnstack = <<>>
    /\ status = "idle" /\ result = None /\ name = "" /\ args = <<>>
    /\ NoLEB

\* m.read_magic()
ReadMagic ==
    /\ ep.st = "magic"
    /\ Decodes(read_magic(D, read_word(rdr_bytes, rdr_pos)), "version")

\* m.read_version()
ReadVersion ==
    /\ ep.st = "version"
    /\ Decodes(read_version(D, read_word(rdr_bytes, rdr_pos)), "sections")

\* m.read_sections(): one turn of `while not self.rdr.eof()`
ReadSection ==
    /\ ep.st = "sections"
    /\ rdr_pos < Len(rdr_bytes)
    /\ \E build \in Builds : Decodes(read_section(rdr_bytes, D, build), "sections")

\* read_sections has returned.
SectionsRead == ep.st = "sections" /\ rdr_pos >= Len(rdr_bytes)

NextDec == ReadMagic \/ ReadVersion \/ ReadSection

SpecDec == InitDec /\ [][NextDec]_vars



(***************************************************************************)
(* Claims                                                                  *)
(***************************************************************************)

\* C5: a signed 32-bit read_LEB of the canonical signed LEB128 encoding of v
\* returns v (what i32.const pushes), for every 32-bit signed v.
C5_SignedLEBDecodes ==
    (leb.st = "done" /\ leb.signed /\ leb.maxbits = 32) => leb.result = PyInt(input)

\* Whether a range of n bytes from pos lies inside a memory of mem.size bytes.
InsideMemory(mem, pos, n) == 0 <= pos /\ pos + n - 1 < mem.size

\* C9: read_I32(a) immediately after write_I32(a, v) returns v, for every a
\* with a+3 inside memory and every v in [-2^31, 2^31-1].
C9_I32RoundTrip ==
    \A i \in 1..(Len(memlog) - 1) :
        ( /\ memlog[i].op = "write_I32"
          /\ memlog[i + 1].op = "read_I32"
          /\ memlog[i + 1].pos = memlog[i].pos
          /\ InsideMemory(memory, memlog[i].pos, 4) )
        => (memlog[i + 1].ok /\ memlog[i + 1].ret = memlog[i].val)

\* C10: read_I64(a) immediately after write_I64(a, v) returns v, for every a
\* with a+7 inside memory and every 64-bit v.
C10_I64RoundTrip ==
    \A i \in 1..(Len(memlog) - 1) :
        ( /\ memlog[i].op = "write_I64"
          /\ memlog[i + 1].op = "read_I64"
          /\ memlog[i + 1].pos = memlog[i].pos
          /\ InsideMemory(memory, memlog[i].pos, 8) )
        => (memlog[i + 1].ok /\ memlog[i + 1].ret = memlog[i].val)

\* The call of a Memory helper that this step makes, and the bytes it accesses.
MemCalled == memlog' # memlog

LastCall == memlog'[Len(memlog')]

AccessBytes(op) == IF op \in {"read_I32", "write_I32"} THEN 4 ELSE 8

\* C11: a Memory helper whose byte range is not entirely inside memory halts
\* with an error and leaves memory unchanged (write_I32 across the end of
\* memory writes no byte).
C11_OutOfRangeTraps ==
    [][(MemCalled /\ ~InsideMemory(memory, LastCall.pos, AccessBytes(LastCall.op)))
          => (~LastCall.ok /\ memory' = memory)]_vars

\* The initial page counts that the Memory sections of an image declare (its
\* sections from offset pos on, each an id, a length and a payload of count,
\* flags and initial), and those of the Memory imports that were decoded.
RECURSIVE MemorySectionPages(_, _)
MemorySectionPages(bytes, pos) ==
    IF pos + 2 > Len(bytes) THEN {}
    ELSE (IF bytes[pos + 1] = 5 THEN {bytes[pos + 5]} ELSE {})
            \cup MemorySectionPages(bytes, pos + 2 + bytes[pos + 2])

ImportedMemoryPages ==
    {import_list[i].initial : i \in {j \in DOMAIN import_list : import_list[j].kind = 2}}

DeclaredPages == MemorySectionPages(rdr_bytes, Len(Header)) \cup ImportedMemoryPages

\* The header of the section that read_section is about to read
SectionId == ReadLEB(rdr_bytes, rdr_pos, 7, FALSE)

SectionLength == ReadLEB(rdr_bytes, SectionId.pos, 32, FALSE)

\* read_section is about to read a section that it skips: any id but those
\* of Type, Import, Function, Memory, Export and Code.
AtSkippedSection ==
    /\ ep.st = "sections"
    /\ rdr_pos < Len(rdr_bytes)
    /\ SectionId.st = "ok" /\ SectionLength.st = "ok"
    /\ PyVal(SectionId.val) \notin {1, 2, 3, 5, 7, 10}

\* C19: read_section on a skipped section of declared length L >= 0 leaves
\* the reader L bytes past the section header, changes none of the tables of
\* the module, and decoding goes on.
C19_SkippedSections ==
    [][AtSkippedSection =>
          /\ rdr_pos' = SectionLength.pos + PyVal(SectionLength.val)
          /\ UNCHANGED <<types, import_list, function, export_map, memory, block_map,
                         branch_map>>
          /\ ep'.st = "sections"]_vars

\* C12: after decoding, memory has 65536 x N bytes, N being the initial page
\* count of the Memory section or of an imported Memory, and one page when
\* the module has neither.
C12_InitialMemorySize ==
    SectionsRead =>
        memory.size \in {PageSize * n : n \in (IF DeclaredPages = {} THEN {1}
                                                ELSE DeclaredPages)}

(***************************************************************************)
(* Spec: run(name, args) on a decoded module, one instruction at a time.   *)
(* The module's code section holds the functions below; every one is       *)
(* exported under its name.                                                *)
(***************************************************************************)
TestCode ==
    <<
      \* 0: fact, at 2..23 (body_size, local_count)
      23, 0,
      20, 0,       \*   2: get_local 0
      16, 0,       \*   4: i32.const 0
      77,          \*   6: i32.eq
      3, 1,        \*   7: if (result i32)
      16, 1,       \*   9: i32.const 1
      4,           \*  11: else
      20, 0,       \*  12: get_local 0
      20, 0,       \*  14: get_local 0
      16, 1,       \*  16: i32.const 1
      65,          \*  18: i32.sub
      22, 0,       \*  19: call fact
      66,          \*  21: i32.mul
      15,          \*  22: end
      15,          \*  23: end
      \* 1: countdown, at 28..46 (body_size, local_count, locals)
      22, 1, 1, 1,
      16, 10,      \*  28: i32.const 10
      21, 0,       \*  30: set_local 0
      2, 0,        \*  32: loop
      20, 0,       \*  34: get_local 0
      16, 1,       \*  36: i32.const 1
      65,          \*  38: i32.sub
      25, 0,       \*  39: tee_local 0
      7, 0,        \*  41: br_if 0
      15,          \*  43: end
      20, 0,       \*  44: get_local 0
      15,          \*  46: end
      \* 2: sub, at 49..54 (body_size, local_count)
      7, 0,
      20, 0,       \*  49: get_local 0
      20, 1,       \*  51: get_local 1
      65,          \*  53: i32.sub
      15,          \*  54: end
      \* 3: add, at 57..62 (body_size, local_count)
      7, 0,
      20, 0,       \*  57: get_local 0
      20, 1,       \*  59: get_local 1
      64,          \*  61: i32.add
      15,          \*  62: end
      \* 4: mul, at 65..70 (body_size, local_count)
      7, 0,
      20, 0,       \*  65: get_local 0
      20, 1,       \*  67: get_local 1
      66,          \*  69: i32.mul
      15,          \*  70: end
      \* 5: seven, at 73..78 (body_size, local_count)
      7, 0,
      1, 1,        \*  73: block (result i32)
      16, 7,       \*  75: i32.const 7
      15,          \*  77: end
      15,          \*  78: end
      \* 6: misc, at 81..93 (body_size, local_count)
      14, 0,
      1, 0,        \*  81: block
      6, 0,        \*  83: br 0
      15,          \*  85: end
      10,          \*  86: nop
      16, 3,       \*  87: i32.const 3
      11,          \*  89: drop
      16, 4,       \*  90: i32.const 4
      9,           \*  92: return
      15,          \*  93: end
      \* 7: five_minus_three, at 96..102 (body_size, local_count)
      8, 0,
      16, 5,       \*  96: i32.const 5
      16, 3,       \*  98: i32.const 3
      22, 2,       \* 100: call sub
      15,          \* 102: end
      \* 8: kinds, at 105..131 (body_size, local_count)
      28, 0,
      16, 1,       \* 105: i32.const 1
      166,         \* 107: i64.extend_s/i32
      176,         \* 108: f64.convert_s/i64
      11,          \* 109: drop
      18, 0, 0, 0, 0, 0, 0, 240, 63,   \* 110: f64.const 1.0
      11,          \* 119: drop
      19, 0, 0, 128, 63,               \* 120: f32.const 1.0
      11,          \* 125: drop
      17, 7,       \* 126: i64.const 7
      17, 2,       \* 128: i64.const 2
      94,          \* 130: i64.div_s
      15,          \* 131: end
      \* 9: trap, at 134..135 (body_size, local_count)
      3, 0,
      0,           \* 134: unreachable
      15,          \* 135: end
      \* 10: reserved, at 138..139 (body_size, local_count)
      3, 0,
      5,           \* 138: select
      15,          \* 139: end
      \* 11: unknown, at 142..143 (body_size, local_count)
      3, 0,
      161,         \* 142: i32.wrap/i64
      15,          \* 143: end
      \* 12: escape, at 146..159 (body_size, local_count)
      15, 0,
      20, 0,       \* 146: get_local 0
      3, 0,        \* 148: if
      6, 0,        \* 150: br 0
      4,           \* 152: else
      16, 9,       \* 153: i32.const 9
      11,          \* 155: drop
      15,          \* 156: end
      16, 5,       \* 157: i32.const 5
      15           \* 159: end
    >>

TestFunctions ==
    <<
       Function([index |-> 0, params |-> <<"i32">>, results |-> <<"i32">>], 0, <<>>, 2, 23),
       Function([index |-> 1, params |-> <<>>, results |-> <<"i32">>], 1, <<"i32">>, 28, 46),
       Function([index |-> 2, params |-> <<"i32", "i32">>, results |-> <<"i32">>], 2, <<>>, 49, 54),
       Function([index |-> 2, params |-> <<"i32", "i32">>, results |-> <<"i32">>], 3, <<>>, 57, 62),
       Function([index |-> 2, params |-> <<"i32", "i32">>, results |-> <<"i32">>], 4, <<>>, 65, 70),
       Function([index |-> 1, params |-> <<>>, results |-> <<"i32">>], 5, <<>>, 73, 78),
       Function([index |-> 1, params |-> <<>>, results |-> <<"i32">>], 6, <<>>, 81, 93),
       Function([index |-> 1, params |-> <<>>, results |-> <<"i32">>], 7, <<>>, 96, 102),
       Function([index |-> 3, params |-> <<>>, results |-> <<"i64">>], 8, <<>>, 105, 131),
       Function([index |-> 4, params |-> <<>>, results |-> <<>>], 9, <<>>, 134, 135),
       Function([index |-> 4, params |-> <<>>, results |-> <<>>], 10, <<>>, 138, 139),
       Function([index |-> 4, params |-> <<>>, results |-> <<>>], 11, <<>>, 142, 143),
       Function([index |-> 0, params |-> <<"i32">>, results |-> <<"i32">>], 12, <<>>, 146, 159)
    >>

TestExports ==
    "fact" :> 0 @@ "countdown" :> 1 @@ "sub" :> 2 @@ "add" :> 3 @@ "mul" :> 4 @@ "seven" :> 5 @@ "misc" :> 6 @@ "five_minus_three" :> 7
        @@ "kinds" :> 8 @@ "trap" :> 9 @@ "reserved" :> 10 @@ "unknown" :> 11 @@ "escape" :> 12

\* The frames a machine has memory for: the stacks are Python lists, which
\* grow until the allocator fails.  A factorial of 5 that reached its base
\* case would hold 6 frames (fact(5) down to fact(0)), so the bound stops
\* only runs that recurse past every base case.
MaxDepth == 6

Entries == DOMAIN TestExports \cup {"none"}

ArgValues == {-2147483647 - 1, -1, 0, 1, 2, 3, 4, 5, 2147483647}

ArgLists == {<<>>} \cup {<<a>> : a \in ArgValues} \cup {<<a, b>> : a, b \in ArgValues}

\* The machine of the current state, and the state a machine becomes.
M ==
    [pos |-> rdr_pos, stack |-> stack, localstack |-> localstack,
     sigstack |-> sigstack, returnstack |-> returnstack, status |-> status,
     result |-> result]

Machine(m) ==
    /\ rdr_pos' = m.pos
    /\ stack' = m.stack
    /\ localstack' = m.localstack
    /\ sigstack' = m.sigstack
    /\ returnstack' = m.returnstack
    /\ status' = m.status
    /\ result' = m.result

\* Becomes for a turn that empties branch_map
Becomes_ClearsBranchMap(m) ==
    /\ Machine(m)
    /\ branch_map' = <<>>
    /\ UNCHANGED <<rdr_bytes, lebVars, memVars, fb, block_map, function, export_map, envVars>>

Becomes(m) ==
    /\ Machine(m)
    /\ UNCHANGED <<rdr_bytes, lebVars, memVars, preVars, function, export_map, envVars>>

\* The world of the current state, and the state a call leaves.
W == World(memory, out, host, stdin)

CallBecomes(c) ==
    /\ Machine(c.m)
    /\ memory' = c.w.memory
    /\ out' = c.w.out
    /\ host' = c.w.host
    /\ stdin' = c.w.stdin
    /\ UNCHANGED <<rdr_bytes, lebVars, memlog, preVars, function, export_map, types,
                   import_list, ep, argv>>

\* Module(...), read_magic, read_version and read_sections have run: the
\* reader is at the end of the image and the pre-pass has filled the maps.
Decoded(build) ==
    parse_Code(TestCode, TestFunctions, Len(TestFunctions), build)

Init ==
    /\ rdr_bytes = TestCode
    /\ rdr_pos = Len(TestCode)
    /\ function = TestFunctions
    /\ export_map = TestExports
    /\ \E build \in Builds :
          /\ Decoded(build).st = "done"
          /\ block_map = Decoded(build).block_map
          /\ branch_map = Decoded(build).branch_map
    /\ fb = FBIdle
    /\ stack = <<>> /\ localstack = <<>> /\ sigstack = <<>> /\ returnstack = <<>>
    /\ status = "idle" /\ result = None /\ name = "" /\ args = <<>>
    /\ NoLEB /\ NoMemory
    /\ NoEnv

\* m.run(entry, args)
Run ==
    /\ status = "idle"
    /\ \E entry \in Entries, strs \in ArgLists :
          /\ name' = entry
          /\ args' = strs
          /\ Becomes(run(rdr_pos, export_map, entry, strs, function, MaxDepth))

\* One turn of the loop of run_code_v12 is at opcode
At(opcode) ==
    /\ status = "running"
    /\ rdr_pos < Len(rdr_bytes)
    /\ rdr_bytes[rdr_pos + 1] = opcode

\* self.rdr.read_LEB(32) after the opcode
Imm == ReadLEB(rdr_bytes, rdr_pos + 1, 32, FALSE)

OpBlock == At(1) /\ Becomes(op_block(M, Imm, block_map)) /\ UNCHANGED <<name, args>>

OpLoop == At(2) /\ Becomes(op_block(M, Imm, block_map)) /\ UNCHANGED <<name, args>>

OpIf == At(3) /\ Becomes(op_if(M, Imm, block_map)) /\ UNCHANGED <<name, args>>

OpBr == At(6) /\ Becomes(op_br(M, Imm)) /\ UNCHANGED <<name, args>>

OpBrIf == At(7) /\ Becomes(op_br_if(M, Imm)) /\ UNCHANGED <<name, args>>

OpReturn == At(9) /\ Becomes(op_return(M)) /\ UNCHANGED <<name, args>>

OpNop == At(10) /\ Becomes(op_nop(M)) /\ UNCHANGED <<name, args>>

OpDrop == At(11) /\ Becomes(op_drop(M)) /\ UNCHANGED <<name, args>>

OpEnd == (At(15) \/ At(4)) /\ Becomes(op_end(M)) /\ UNCHANGED <<name, args>>

OpI32Const ==
    /\ At(16)
    /\ Becomes(op_i32_const(M, ReadLEB(rdr_bytes, rdr_pos + 1, 32, TRUE)))
    /\ UNCHANGED <<name, args>>

OpGetLocal == At(20) /\ Becomes(op_get_local(M, Imm)) /\ UNCHANGED <<name, args>>

OpSetLocal == At(21) /\ Becomes(op_set_local(M, Imm, TRUE)) /\ UNCHANGED <<name, args>>

OpTeeLocal == At(25) /\ Becomes(op_set_local(M, Imm, FALSE)) /\ UNCHANGED <<name, args>>

OpCall ==
    /\ At(22)
    /\ CallBecomes(call(M, Imm, function, MaxDepth, import_list, W))
    /\ UNCHANGED <<name, args>>

OpI32 ==
    /\ \E opcode \in (64..90) \cup {182, 183} : At(opcode) /\ Becomes(op_i32(M, opcode))
    /\ UNCHANGED <<name, args>>

OpUnreachable == At(0) /\ Becomes(op_unreachable(M)) /\ UNCHANGED <<name, args>>

OpUnimplemented ==
    /\ \E opcode \in UnimplementedOps : At(opcode) /\ Becomes(op_unimplemented(M))
    /\ UNCHANGED <<name, args>>

OpUnrecognized ==
    /\ \E opcode \in UnrecognizedOps : At(opcode) /\ Becomes(op_unrecognized(M))
    /\ UNCHANGED <<name, args>>

OpI64Const ==
    /\ At(17)
    /\ Becomes(op_i64_const(M, ReadLEB(rdr_bytes, rdr_pos + 1, 64, TRUE)))
    /\ UNCHANGED <<name, args>>

OpF64Const ==
    /\ At(18)
    /\ \E build \in Builds :
          Becomes(op_f64_const(M, read_bytes(rdr_bytes, rdr_pos + 1, 8), build))
    /\ UNCHANGED <<name, args>>

OpF32Const ==
    /\ At(19)
    /\ Becomes(op_f32_const(M, read_bytes(rdr_bytes, rdr_pos + 1, 4)))
    /\ UNCHANGED <<name, args>>

OpI64 ==
    /\ \E opcode \in (91..116) \cup {184, 185, 186} : At(opcode) /\ Becomes(op_i64(M, opcode))
    /\ UNCHANGED <<name, args>>

OpI64ExtendS == At(166) /\ Becomes(op_i64_extend_s(M)) /\ UNCHANGED <<name, args>>

OpF64ConvertS == At(176) /\ Becomes(op_f64_convert_s(M)) /\ UNCHANGED <<name, args>>

\* One turn of the loop of run_code_v12
Step ==
    \/ OpUnreachable
    \/ OpBlock \/ OpLoop \/ OpIf \/ OpBr \/ OpBrIf \/ OpReturn \/ OpNop \/ OpDrop
    \/ OpEnd \/ OpI32Const \/ OpI64Const \/ OpF64Const \/ OpF32Const
    \/ OpGetLocal \/ OpSetLocal \/ OpTeeLocal \/ OpCall \/ OpI32 \/ OpI64
    \/ OpI64ExtendS \/ OpF64ConvertS \/ OpUnimplemented \/ OpUnrecognized

Next == Run \/ Step

Spec == Init /\ [][Next]_vars

\* The opcodes the actions above take: every opcode of OPERATOR_INFO.  The
\* pre-pass looks every opcode of a body up in OPERATOR_INFO, so the loop never
\* comes to a byte that is not in it (CanStep).
Handled == {n \in 0..255 : InOperatorInfo(n)}

\* While run is underway Next has a step to take (Spec keeps this invariant).
Underway == status \in {"idle", "running"}

CanStep == status = "running" => rdr_pos < Len(rdr_bytes) /\ rdr_bytes[rdr_pos + 1] \in Handled

\* What a turn of the loop changes: it reads an opcode or jumps, or it ends
\* the run (Spec keeps TurnsMove).
turn == <<rdr_pos, status>>

TurnsMove == [][turn' # turn]_vars

\* A turn of the loop that leaves run underway.  By CanStep and TurnsMove it
\* is enabled exactly where Next is, and the steps of Next that leave run
\* underway are its steps.
Turn == Underway /\ status' = "running" /\ rdr_pos' \in 0..Len(rdr_bytes)

\* The loop of run_code_v12 keeps taking turns until run returns or raises.
FairSpec == Spec /\ WF_turn(Turn)

(***************************************************************************)
(* Block nesting as the format defines it, read off the bytes: block, loop *)
(* and if open a block, else closes the if and opens the else block at the *)
(* else's offset, end closes the innermost open block.                     *)
(***************************************************************************)
OpenAfter(op, p, open) ==
    CASE op \in 1..3 -> Append(open, [kind |-> op, start |-> p])
      [] op = 4      -> Append(Pop(open), [kind |-> 4, start |-> p])
      [] op = 15     -> Pop(open)
      [] OTHER       -> open

NestingOk(op, open) ==
    CASE op = 4  -> open # <<>> /\ Top(open).kind = 3
      [] op = 15 -> open # <<>>
      [] OTHER   -> TRUE

\* ok: the body is well nested up to the function's end at the last byte;
\* at[p]: the blocks open at the instruction at offset p, outermost first.
RECURSIVE NestingFrom(_, _, _, _)
NestingFrom(bytes, p, open, at) ==
    IF p >= Len(bytes) - 1
    THEN [ok |-> p = Len(bytes) - 1 /\ open = <<>> /\ bytes[p + 1] = 15, at |-> at]
    ELSE IF ~NestingOk(bytes[p + 1], open) THEN [ok |-> FALSE, at |-> at]
    ELSE NestingFrom(bytes, drop_immediates(bytes, p + 1, bytes[p + 1]).pos,
                     OpenAfter(bytes[p + 1], p, open), DictSet(at, p, open))

Nesting(bytes) == NestingFrom(bytes, 0, <<>>, <<>>)

\* The branch at offset p lies inside the extent of the block it resolves to.
BranchInside(p) == branch_map[p].start <= p /\ p <= branch_map[p].end

\* C7: for a well-nested function body, after the pre-pass the origin of
\* every entry of branch_map lies inside the extent [start, end] of the block
\* the entry gives as its target.
C7_BranchMapValid ==
    (fb.st = "done" /\ Nesting(rdr_bytes).ok) => \A p \in DOMAIN branch_map : BranchInside(p)

\* The extents pass A recorded: each block start o has its terminator t after
\* it and inside the function, and no two extents cross.
ExtentsClosed(f) ==
    \A o \in DOMAIN f.bsm : o < f.bsm[o].end /\ f.bsm[o].end <= f.fend

ExtentsNested(f) ==
    \A o1, o2 \in DOMAIN f.bsm :
        ~(o1 < o2 /\ o2 < f.bsm[o1].end /\ f.bsm[o1].end < f.bsm[o2].end)

\* A turn of pass A that records a block start leaves what it had recorded
\* as it was: a start has one terminator.
RecordedOnce == \A o \in DOMAIN fb.bsm : o \in DOMAIN fb'.bsm /\ fb'.bsm[o] = fb.bsm[o]

\* The starts a step records.  The entry of a recorded start o is the top of
\* opstack before the step, so the stack held Len(fb.opstack) - 1 entries
\* just before o.
Recorded == IF fb.st = "passA" THEN DOMAIN fb'.bsm \ DOMAIN fb.bsm ELSE {}

HeightBefore == Len(fb.opstack) - 1

HeightAfter == Len(fb'.opstack)

\* C8 (as stated): after pass A every recorded block start o has exactly one
\* terminator t with o < t <= function end, the open-entry stack is as high
\* just after t as it was just before o, and no two extents partially
\* overlap.
C8_BlockMapClosed ==
    /\ [](fb.st = "create" => ExtentsClosed(fb) /\ ExtentsNested(fb))
    /\ [][fb.st = "passA" => RecordedOnce]_vars
    /\ [][\A o \in Recorded : HeightAfter = HeightBefore]_vars

\* C8 (amended): as above, but the open-entry stack just after t is as high
\* as just before o when t is an end, and one higher when t is an else: pass
\* A opens the else block's entry in the turn that closes the if.
C8_BlockMapClosed_ElseOpens ==
    /\ [](fb.st = "create" => ExtentsClosed(fb) /\ ExtentsNested(fb))
    /\ [][fb.st = "passA" => RecordedOnce]_vars
    /\ [][\A o \in Recorded :
            HeightAfter = HeightBefore + (IF rdr_bytes[fb'.bsm[o].end + 1] = 4 THEN 1 ELSE 0)]_vars

\* Pass A is over, having closed an if at its else, the else block at its
\* end, and a block around them.
C8_Witness ==
    /\ fb.st = "create"
    /\ \E o1, o2, o3 \in DOMAIN fb.bsm :
          /\ fb.bsm[o2].kind = 3 /\ fb.bsm[o3].kind = 4
          /\ fb.bsm[o2].end = o3
          /\ o1 < o2 /\ fb.bsm[o3].end < fb.bsm[o1].end

\* run was called on entry with strs
RunOf(entry, strs) == name = entry /\ args = strs /\ status # "idle"

Returned(val) == status = "returned" /\ result = val

RECURSIVE Factorial(_)
Factorial(n) == IF n = 0 THEN 1 ELSE n * Factorial(n - 1)

\* C1: run("fact", [n]) terminates and returns I32(n!), for every n in 0..5.
C1_Factorial ==
    \A n \in 0..5 : RunOf("fact", <<n>>) ~> Returned(I32(PyInt(Factorial(n))))

\* The function run was called on, and whether its body holds a set_local or
\* a tee_local.
EntryFunction == function[export_map[name] + 1]

WritesLocals(func) == \E p \in func.start..func.end : rdr_bytes[p + 1] \in {21, 25}

\* The turn at hand is a get_local i in the frame run set up, for a function
\* of as many I32 parameters as run got arguments, that writes no local.
EntryGetLocal(i) ==
    /\ At(20)
    /\ rdr_bytes[rdr_pos + 2] = i
    /\ Len(returnstack) = 1
    /\ name \in DOMAIN export_map
    /\ Len(args) = Len(EntryFunction.type.params)
    /\ i < Len(args)
    /\ ~WritesLocals(EntryFunction)

\* C2: in the entry frame of run(name, [a0, ..., a(k-1)]), a get_local i with
\* 0 <= i < k pushes I32(a_i): argument i of the command line is parameter i.
C2_ArgumentBinding ==
    [][\A i \in 0..1 :
          EntryGetLocal(i) => (stack' # <<>> /\ Top(stack') = I32(PyInt(args[i + 1])))]_vars

\* The countdown function and its loop: the loop instruction, the first
\* instruction of its body and its end.
Countdown == TestFunctions[2]

CountdownLoop == Countdown.start + 4

CountdownBody == CountdownLoop + 2

CountdownLoopEnd == Countdown.start + 15

InCountdown == name = "countdown" /\ status = "running"

\* The loop body is about to be entered with the local at k.  The whole
\* machine is told by k, and a run that terminates passes no state twice,
\* so the body is entered once for each k that is reached.
BodyEntered(k) ==
    /\ InCountdown
    /\ rdr_pos = CountdownBody
    /\ stack = <<>>
    /\ localstack = <<I32(PyInt(k))>>
    /\ returnstack = <<Len(rdr_bytes)>>

\* C3: run of countdown terminates and returns I32(0); the loop body is
\* entered exactly 10 times (with the local at 10, 9, ..., 1 and never
\* otherwise); every taken br_if 0 goes back to the loop instruction, and
\* inside the body the signature stack is exactly [Function, loop].
C3_Countdown ==
    /\ (name = "countdown" /\ status # "idle") ~> Returned(I32(PyInt(0)))
    /\ \A k \in 1..10 : (InCountdown /\ rdr_pos = Countdown.start) ~> BodyEntered(k)
    /\ []((InCountdown /\ rdr_pos = CountdownBody) => \E k \in 1..10 : BodyEntered(k))
    /\ []((InCountdown /\ rdr_pos \in CountdownBody..CountdownLoopEnd)
            => sigstack = <<Countdown, block_map[CountdownLoop]>>)
    /\ [][(InCountdown /\ At(7) /\ stack # <<>> /\ PyTruth(Top(stack).v))
            => (rdr_pos' = CountdownLoop /\ sigstack' = <<Countdown>>)]_vars

\* countdown has returned I32(0).
C3_Witness == name = "countdown" /\ Returned(I32(PyInt(0)))

\* -2^31 <= a <= 2^31 - 1
InI32Range(a) ==
    /\ ~PyLt(a, PyInt(-2147483647 - 1))
    /\ ~PyLt(PyInt(2147483647), a)

AllI32InRange(vals) ==
    \A i \in DOMAIN vals : vals[i].t = "i32" => InI32Range(vals[i].v)

\* C4: every I32 on the operand stack, in the local stack or returned by run
\* lies in the signed 32-bit range (add, sub and mul wrap modulo 2^32).
C4_I32Range ==
    AllI32InRange(stack) /\ AllI32InRange(localstack) /\ AllI32InRange(<<result>>)

\* The turn at hand is the end of a block, loop or if that declares a result
\* of the kind on top of the operand stack.
EndOfResultBlock ==
    /\ At(15)
    /\ sigstack # <<>>
    /\ Top(sigstack).cls = "Block"
    /\ Top(sigstack).kind \in 1..3
    /\ Len(Top(sigstack).type.results) = 1
    /\ stack # <<>>
    /\ Top(stack).t = Top(sigstack).type.results[1]

\* C6: right after the end of a block that declares one result, reached by
\* falling through, the top of the operand stack is the value the block
\* produced.
C6_BlockResultKept ==
    [][EndOfResultBlock => (stack' # <<>> /\ Top(stack') = Top(stack))]_vars

(***************************************************************************)
(* SpecCLI: entry_point(argv), from Module(...) to its return.  wasm is    *)
(* the image argv[1] names; strings (the entry name, the arguments) are   *)
(* the sequences of their character codes.                                 *)
(***************************************************************************)
\* A section, and a function body with no locals (lengths under 128 are one
\* LEB byte).
Section(id, payload) == <<id, Len(payload)>> \o payload

Body(code) == <<Len(code) + 1, 0>> \o code

\* "main"
MainName == <<109, 97, 105, 110>>

\* The type of a function: form func, the parameters, the results.
FuncType(params, results) == <<32, Len(params)>> \o params \o <<Len(results)>> \o results

\* A module of one function, exported as main.
MainModule(type, code) ==
    Header \o Section(1, <<1>> \o type) \o Section(3, <<1, 0>>)
           \o Section(7, <<1, 4>> \o MainName \o <<0, 0>>)
           \o Section(10, <<1>> \o Body(code))

\* What follows a probed opcode: its immediates, all 0, the end of the block
\* it opens, and the end of the function.
ProbeTail(op) ==
    CASE ImmType(op) = "inline_signature_type" -> <<0, 15, 15>>
      [] ImmType(op) \in {"varuint32", "varint32", "varint64"} -> <<0, 15>>
      [] ImmType(op) \in {"memory_immediate", "br_table"} -> <<0, 0, 15>>
      [] ImmType(op) = "uint32" -> <<0, 0, 0, 0, 15>>
      [] ImmType(op) = "uint64" -> <<0, 0, 0, 0, 0, 0, 0, 0, 15>>
      [] OTHER -> <<15>>

\* Two constants of one kind (i32.const or i64.const), 7 and then 0, and the
\* probed opcode.
Probe(const, op) == MainModule(FuncType(<<>>, <<>>), <<const, 7, const, 0, op>> \o ProbeTail(op))

Probes == {Probe(const, op) : const \in {16, 17}, op \in 0..255}

\* (i32, i32) -> i64: the quotient of the arguments as i64.
DivModule ==
    MainModule(FuncType(<<1, 1>>, <<2>>), <<20, 0, 166, 20, 1, 166, 94, 15>>)

\* (i32, i32) -> i32: an i32 operation on the arguments, in their order.
I32BinaryModule(op) == MainModule(FuncType(<<1, 1>>, <<1>>), <<20, 0, 20, 1, op, 15>>)

\* (i32, i32) -> kind: an i64 operation on the arguments as i64, in their
\* order.
I64BinaryModule(op, kind) ==
    MainModule(FuncType(<<1, 1>>, <<kind>>), <<20, 0, 166, 20, 1, 166, op, 15>>)

\* i32.sub, i32.lt_s, i64.sub and i64.gt_s
BinaryModules ==
    {I32BinaryModule(65), I32BinaryModule(79), I64BinaryModule(92, 2), I64BinaryModule(110, 1)}

\* () -> (): if ... else ... end
ElseModule == MainModule(FuncType(<<>>, <<>>), <<16, 1, 3, 0, 10, 4, 10, 15, 15>>)

\* Functions of no parameter: every result kind with bodies that leave
\* nothing, an i32, an i64 or an f64.
ResultBodies == {<<15>>, <<16, 5, 15>>, <<17, 5, 15>>, <<17, 5, 176, 15>>}

ResultModules ==
    {MainModule(FuncType(<<>>, results), code) :
        results \in {<<>>, <<1>>, <<2>>, <<4>>}, code \in ResultBodies}

\* () -> (): block; br_if 0 on 0; br 0; end
BranchModule == MainModule(FuncType(<<>>, <<>>), <<1, 0, 16, 0, 7, 0, 6, 0, 15, 15>>)

\* The sequences of ss one after the other
RECURSIVE Flat(_)
Flat(ss) == IF ss = <<>> THEN <<>> ELSE Head(ss) \o Flat(Tail(ss))

\* A module that imports the functions of module "core" that imports names
\* (field and type of each), and whose one function, exported as main, comes
\* after them in the function table.
ImportEntry(imports, i) ==
    <<4, 99, 111, 114, 101, Len(imports[i].field)>> \o imports[i].field \o <<0, i>>

HostModule(imports, type, code) ==
    Header \o Section(1, <<1 + Len(imports)>> \o type
                            \o Flat([i \in DOMAIN imports |-> imports[i].type]))
           \o Section(2, <<Len(imports)>>
                            \o Flat([i \in DOMAIN imports |-> ImportEntry(imports, i)]))
           \o Section(3, <<1, 0>>)
           \o Section(7, <<1, 4>> \o MainName \o <<0, Len(imports)>>)
           \o Section(10, <<1>> \o Body(code))

\* The fields DEBUG, writeline, readline and x
FieldDEBUG == <<68, 69, 66, 85, 71>>

FieldWriteline == <<119, 114, 105, 116, 101, 108, 105, 110, 101>>

FieldReadline == <<114, 101, 97, 100, 108, 105, 110, 101>>

\* main pushes v0 = 8 and v1 = 4 (as i32 or i64) and calls import 0, of
\* every type of up to two parameters and one result.
ValueKinds == {1, 2}

ParamLists == {<<>>} \cup {<<a>> : a \in ValueKinds} \cup {<<a, b>> : a, b \in ValueKinds}

ResultLists == {<<>>} \cup {<<a>> : a \in ValueKinds}

ConstOf(kind) == IF kind = 1 THEN 16 ELSE 17

HostCalls ==
    {HostModule(<<[field |-> f, type |-> FuncType(ps, rs)]>>, FuncType(<<>>, <<>>),
                <<ConstOf(k0), 8, ConstOf(k1), 4, 22, 0, 15>>) :
        f \in {FieldDEBUG, FieldWriteline, FieldReadline, <<120>>},
        ps \in ParamLists, rs \in ResultLists, k0 \in ValueKinds, k1 \in ValueKinds}

\* main reads a line to address 8 and writes the line at address 8.
EchoModule ==
    HostModule(<<[field |-> FieldReadline, type |-> FuncType(<<1, 1>>, <<1>>)],
                 [field |-> FieldWriteline, type |-> FuncType(<<1>>, <<>>)]>>,
               FuncType(<<>>, <<1>>),
               <<16, 8, 16, 4, 22, 0, 16, 8, 22, 1, 15>>)

\* What standard input holds: nothing, "hi\n", "hello\n" in two reads, and
\* "hi" with no newline.
Inputs ==
    {<<>>, <<<<104, 105, 10>>>>, <<<<104, 101, 108>>, <<108, 111, 10>>>>, <<<<104, 105>>>>}

\* Images that do not decode: a short header, another version, another
\* magic, a section id that SECTION_NAMES does not have, a Code section
\* whose body has no end.
BrokenImages ==
    {<<0, 97, 115>>, <<0, 97, 115, 109, 13, 0, 0, 0>>, <<1, 97, 115, 109, 12, 0, 0, 0>>,
     Header \o <<12, 1, 0>>,
     Header \o Section(1, <<1>> \o FuncType(<<>>, <<>>)) \o Section(3, <<1, 0>>)
            \o Section(10, <<1>> \o Body(<<10>>))}

\* A function body with declared locals (one entry per local, of its kind)
BodyWith(locals, code) ==
    <<1 + 2 * Len(locals) + Len(code), Len(locals)>>
        \o Flat([j \in DOMAIN locals |-> <<1, locals[j]>>]) \o code

\* A function of a module: its type, its declared locals, its code.
Func(type, locals, code) == [type |-> type, locals |-> locals, code |-> code]

\* A module of the functions funcs, function i of type i, the last one
\* exported as main.
FuncsModule(funcs) ==
    Header \o Section(1, <<Len(funcs)>> \o Flat([i \in DOMAIN funcs |-> funcs[i].type]))
           \o Section(3, <<Len(funcs)>> \o [i \in DOMAIN funcs |-> i - 1])
           \o Section(7, <<1, 4>> \o MainName \o <<0, Len(funcs) - 1>>)
           \o Section(10, <<Len(funcs)>>
                              \o Flat([i \in DOMAIN funcs |->
                                          BodyWith(funcs[i].locals, funcs[i].code)]))

\* f : (i32, i32) -> i32 with locals of the four kinds reads each of them
\* and returns its parameter 0; main calls f(8, 4).
FrameModule ==
    FuncsModule(<<Func(FuncType(<<1, 1>>, <<1>>), <<1, 2, 3, 4>>,
                       <<20, 1, 11, 20, 2, 11, 20, 3, 11, 20, 4, 11, 20, 5, 11, 20, 0, 15>>),
                  Func(FuncType(<<>>, <<1>>), <<>>, <<16, 8, 16, 4, 22, 0, 15>>)>>)

\* f : (i32) -> i32 with one local sets the local to 9, calls f(n - 1) while
\* n is not 0, and returns the local; main calls f(2).
RecursiveModule ==
    FuncsModule(<<Func(FuncType(<<1>>, <<1>>), <<1>>,
                       <<20, 1, 11, 16, 9, 21, 1, 20, 0, 3, 0, 20, 0, 16, 1, 65, 22, 0, 11,
                         15, 20, 1, 15>>),
                  Func(FuncType(<<>>, <<1>>), <<>>, <<16, 2, 22, 0, 15>>)>>)

\* f : (i32, i64) -> i32 returns its parameter 0; main pushes an I32 and then
\* an I64 and calls f.
MixedModule ==
    FuncsModule(<<Func(FuncType(<<1, 2>>, <<1>>), <<>>, <<20, 0, 15>>),
                  Func(FuncType(<<>>, <<1>>), <<>>, <<16, 1, 17, 2, 22, 0, 15>>)>>)

\* The same f; main pushes the I64 first and the I32 second.
MixedSwappedModule ==
    FuncsModule(<<Func(FuncType(<<1, 2>>, <<1>>), <<>>, <<20, 0, 15>>),
                  Func(FuncType(<<>>, <<1>>), <<>>, <<17, 2, 16, 1, 22, 0, 15>>)>>)

\* f : (i32) -> i32 with one local returns its parameter from inside two
\* blocks; main, with one local, calls f(7) from inside a block.
ReturnModule ==
    FuncsModule(<<Func(FuncType(<<1>>, <<1>>), <<1>>,
                       <<1, 0, 1, 0, 20, 0, 9, 15, 15, 16, 5, 15>>),
                  Func(FuncType(<<>>, <<1>>), <<1>>,
                       <<1, 0, 16, 7, 22, 0, 15, 15>>)>>)

\* g : () -> () has a block, and after it br 1 outside every block of g;
\* main calls g from inside a block.
StrayBranchModule ==
    FuncsModule(<<Func(FuncType(<<>>, <<>>), <<>>, <<1, 0, 15, 6, 1, 15>>),
                  Func(FuncType(<<>>, <<>>), <<>>, <<1, 0, 22, 0, 15, 15>>)>>)

\* Modules of one function () -> () with a branch whose depth is the number
\* of the blocks around it: br 0 in a body without blocks; br_if 0, not
\* taken, in such a body; br 0 after a block.
LevelBranchModule == MainModule(FuncType(<<>>, <<>>), <<6, 0, 15>>)

LevelBranchIfModule == MainModule(FuncType(<<>>, <<>>), <<16, 0, 7, 0, 15>>)

AfterBlockBranchModule == MainModule(FuncType(<<>>, <<>>), <<1, 0, 15, 6, 0, 15>>)

FunctionBranchModules == {LevelBranchModule, LevelBranchIfModule, AfterBlockBranchModule}

\* g : () -> i32 without parameter or local does get_local 0; main sets its
\* one local to 5 and calls g.
CallerReadModule ==
    FuncsModule(<<Func(FuncType(<<>>, <<1>>), <<>>, <<20, 0, 15>>),
                  Func(FuncType(<<>>, <<1>>), <<1>>, <<16, 5, 21, 0, 22, 0, 15>>)>>)

\* g : () -> () without parameter or local does set_local 0 (tee_local 0 and
\* drop) of 9; main calls g and returns its one local.
CallerWriteModule(op) ==
    FuncsModule(<<Func(FuncType(<<>>, <<>>), <<>>,
                       <<16, 9, op, 0>> \o (IF op = 25 THEN <<11>> ELSE <<>>) \o <<15>>),
                  Func(FuncType(<<>>, <<1>>), <<1>>, <<22, 0, 20, 0, 15>>)>>)

CallerFrameModules == {CallerReadModule, CallerWriteModule(21), CallerWriteModule(25)}

CallModules ==
    {FrameModule, RecursiveModule, MixedModule, MixedSwappedModule, ReturnModule,
     StrayBranchModule, MemoryImportModule, FunctionImportModule}
        \cup FunctionBranchModules \cup CallerFrameModules

\* The strings of the arguments: "7", "0", "2", "-7" and "x"
ArgStrings == {<<55>>, <<48>>, <<50>>, <<45, 55>>, <<120>>}

\* argv: the program, the file, then the entry name and the arguments.
Invocations ==
    {[wasm |-> w, argv |-> <<"warpy", "file">>, stdin |-> <<>>] :
        w \in Probes \cup ResultModules \cup BrokenImages \cup CallModules
                  \cup {ElseModule, BranchModule}}
      \cup {[wasm |-> w, argv |-> <<"warpy", "file", <<102>>>>, stdin |-> <<>>] :
               w \in ResultModules}
      \cup {[wasm |-> w, argv |-> <<"warpy", "file", MainName>> \o a,
              stdin |-> <<>>] :
               w \in {DivModule} \cup BinaryModules,
               a \in {<<>>} \cup {<<x>> : x \in ArgStrings}
                            \cup {<<x, y>> : x, y \in ArgStrings}}
      \cup {[wasm |-> w, argv |-> <<"warpy", "file">>, stdin |-> i] :
               w \in HostCalls \cup {EchoModule}, i \in Inputs}

InitCLI ==
    /\ \E i \in Invocations : rdr_bytes = i.wasm /\ argv = i.argv /\ stdin = i.stdin
    /\ rdr_pos = Module.pos
    /\ types = Module.type
    /\ import_list = Module.import_list
    /\ function = Module.function
    /\ export_map = Module.export_map
    /\ memory = Module.memory
    /\ block_map = Module.block_map
    /\ branch_map = Module.branch_map
    /\ ep = [st |-> "magic", error |-> "", ret |-> -1]
    /\ out = <<>> /\ host = <<>>
    /\ memlog = <<>> /\ fb = FBIdle
    /\ stack = <<>> /\ localstack = <<>> /\ sigstack = <<>> /\ returnstack = <<>>
    /\ status = "idle" /\ result = None /\ name = <<>> /\ args = <<>>
    /\ NoLEB

\* m.dump()
Dump ==
    /\ SectionsRead
    /\ ep' = IF dump(block_map) = "ok" THEN [ep EXCEPT !.st = "run"]
             ELSE Except(dump(block_map))
    /\ out' = IF dump(block_map) = "ok" THEN out
              ELSE Append(out, Traceback(dump(block_map)))
    /\ UNCHANGED <<readerVars, lebVars, memVars, preVars, runVars, types, import_list,
                   argv, host, stdin>>

\* entry and args as entry_point takes them from argv
Entry == IF Len(argv) >= 3 THEN argv[3] ELSE MainName

Args == IF Len(argv) >= 4 THEN SubSeq(argv, 4, Len(argv)) ELSE <<>>

\* res = m.run(entry, args), up to the call of run_code_v12
RunEntry ==
    /\ ep.st = "run"
    /\ status = "idle"
    /\ name' = Entry
    /\ args' = Args
    /\ Becomes(run_strs(rdr_pos, export_map, Entry, Args, function, MaxDepth))

\* What entry_point does with what m.run returned or raised.
Exit ==
    /\ ep.st = "run"
    /\ status \notin {"idle", "running"}
    /\ ep' = IF status = "returned" THEN [st |-> "exit", error |-> "", ret |-> 0]
             ELSE Except(status)
    /\ out' = IF status # "returned" THEN Append(out, Traceback(status))
              ELSE IF result # None THEN Append(out, value_repr(result))
              ELSE out
    /\ UNCHANGED <<readerVars, lebVars, memVars, preVars, runVars, types, import_list,
                   argv, host, stdin>>

NextCLI == ReadMagic \/ ReadVersion \/ ReadSection \/ Dump \/ RunEntry \/ Exit \/ Step

SpecCLI == InitCLI /\ [][NextCLI]_vars

\* The type of the function that run was called on
EntryType == function[export_map[name] + 1].type

DivByZero ==
    /\ At(94)
    /\ Len(stack) >= 2
    /\ Top(stack).t = "i64" /\ stack[Len(stack) - 1].t = "i64"
    /\ Top(stack).v = PyInt(0)

\* C13: i64.div_s on two I64 operands with divisor 0 ends the run with an
\* error: the two operands are gone and nothing is pushed, run returns no
\* result, no further instruction executes (the machine stays as it is),
\* nothing but the traceback is printed and entry_point returns 1.
C13_DivByZeroTraps ==
    [][/\ DivByZero => /\ status' = "ZeroDivisionError"
                       /\ stack' = Pop(Pop(stack))
                       /\ result' = None
       /\ status = "ZeroDivisionError" =>
              /\ UNCHANGED <<rdr_pos, stack, localstack, sigstack, returnstack, status,
                             result, memory, host>>
              /\ ep' = [st |-> "exit", error |-> "ZeroDivisionError", ret |-> 1]
              /\ out' = Append(out, Traceback("ZeroDivisionError"))]_vars

C13_Witness ==
    /\ status = "ZeroDivisionError"
    /\ rdr_bytes = DivModule
    /\ ep.st = "exit" /\ ep.ret = 1
    /\ result = None

\* The opcodes of OPERATOR_INFO that the loop does not implement.
ReservedOps ==
    UnimplementedOps \cup UnrecognizedOps
        \cup (((64..90) \cup {182, 183}) \ I32Implemented)
        \cup (((91..116) \cup {184, 185, 186}) \ I64Implemented)

\* The operands an integer operator takes are on the stack, of its kind.
OperandsOf(op) ==
    IF op \in (64..116) \cup (182..186)
    THEN /\ Len(stack) >= 2
         /\ LET kind == IF op \in (64..90) \cup {182, 183} THEN "i32" ELSE "i64"
            IN  Top(stack).t = kind /\ stack[Len(stack) - 1].t = kind
    ELSE TRUE

\* C14: every opcode of the table that is not implemented ends the run
\* with the error "unimplemented" (the integer operators on operands of
\* their kind).
C14_ReservedUnimplemented ==
    [][\A op \in ReservedOps :
           At(op) /\ OperandsOf(op) => status' = "Exception: unimplemented"]_vars

\* call is next and its target is a FunctionImport.
CallsImport ==
    /\ At(22)
    /\ Imm.st = "ok"
    /\ PyVal(Imm.val) < Len(function)
    /\ function[PyVal(Imm.val) + 1].cls = "FunctionImport"

CallParams == function[PyVal(Imm.val) + 1].type.params

\* The operands that call pops pass its check of the parameters.
CallChecks ==
    /\ Len(stack) >= Len(CallParams)
    /\ \A idx \in 1..Len(CallParams) : CallParams[idx] = stack[Len(stack) - idx + 1].t

\* v_i of the k operands on top of the stack, v_0 pushed first
Operand(k, i) == stack[Len(stack) - k + i + 1]

CallResults == function[PyVal(Imm.val) + 1].type.results

\* What the host does when the call that is next calls it
HostReturn ==
    call_import(memory,
                import_list[function[PyVal(Imm.val) + 1].index + 1].module \o <<46>>
                    \o import_list[function[PyVal(Imm.val) + 1].index + 1].field,
                [i \in 1..Len(CallParams) |-> Operand(Len(CallParams), i - 1).v], stdin)

\* The declared results that what the host returned (results) does not
\* give: it is there no more, or its kind is another.
BadResults(results) ==
    {idx \in 1..Len(CallResults) :
        idx > Len(results) \/ results[idx].t # CallResults[idx]}

\* C16: when the call of a FunctionImport goes on to the next instruction,
\* the stack is the one before the call without the arguments and with one
\* value of the declared kind for each declared result, those the host
\* returned; when the host returns fewer results than declared or one of
\* another kind, the run ends with "return signature mismatch" and the
\* stack holds nothing beyond the results before that one.
C16_HostResults ==
    [][CallsImport /\ CallChecks =>
          /\ status' = "running" =>
                 /\ Len(stack') = Len(stack) - Len(CallParams) + Len(CallResults)
                 /\ SubSeq(stack', 1, Len(stack) - Len(CallParams))
                        = PopN(stack, Len(CallParams))
                 /\ \A idx \in 1..Len(CallResults) :
                        /\ stack'[Len(stack) - Len(CallParams) + idx].t = CallResults[idx]
                        /\ stack'[Len(stack) - Len(CallParams) + idx]
                               = HostReturn.results[idx]
          /\ HostReturn.st = "ok" /\ BadResults(HostReturn.results) = {} =>
                 status' = "running"
          /\ HostReturn.st = "ok" /\ BadResults(HostReturn.results) # {} =>
                 /\ status' = "Exception: return signature mismatch"
                 /\ \E bad \in BadResults(HostReturn.results) :
                        /\ \A idx \in BadResults(HostReturn.results) : bad <= idx
                        /\ stack' = PopN(stack, Len(CallParams))
                                        \o SubSeq(HostReturn.results, 1, bad - 1)]_vars

\* core.readline, declared with result i32, returned the length 2 of "hi".
C16_Witness ==
    /\ host # <<>>
    /\ host[Len(host)].fname = CoreReadline
    /\ status = "running"
    /\ stack = <<I32(PyInt(2))>>

(***************************************************************************)
(* Runs one after the other on one Module                                  *)
(***************************************************************************)

\* The arguments of the runs that follow a run
LaterArgLists == {<<>>, <<3>>, <<5, 3>>}

\* m.run(entry, args) on the Module that an earlier run has left
Rerun ==
    /\ status \notin {"idle", "running"}
    /\ \E entry \in Entries, strs \in LaterArgLists :
          /\ name' = entry
          /\ args' = strs
          /\ Becomes(run(rdr_pos, export_map, entry, strs, function, MaxDepth))

NextRuns == Run \/ Rerun \/ Step

SpecRuns == Init /\ [][NextRuns]_vars

\* One turn of the loop of run_code_v12 on the machine m, as a function
LoopTurn(m, opcode, build) ==
    CASE opcode = 0 -> op_unreachable(m)
      [] opcode \in {1, 2} ->
             op_block(m, ReadLEB(rdr_bytes, m.pos + 1, 32, FALSE), block_map)
      [] opcode = 3 -> op_if(m, ReadLEB(rdr_bytes, m.pos + 1, 32, FALSE), block_map)
      [] opcode = 6 -> op_br(m, ReadLEB(rdr_bytes, m.pos + 1, 32, FALSE))
      [] opcode = 7 -> op_br_if(m, ReadLEB(rdr_bytes, m.pos + 1, 32, FALSE))
      [] opcode = 9 -> op_return(m)
      [] opcode = 10 -> op_nop(m)
      [] opcode = 11 -> op_drop(m)
      [] opcode \in {15, 4} -> op_end(m)
      [] opcode = 16 -> op_i32_const(m, ReadLEB(rdr_bytes, m.pos + 1, 32, TRUE))
      [] opcode = 17 -> op_i64_const(m, ReadLEB(rdr_bytes, m.pos + 1, 64, TRUE))
      [] opcode = 18 -> op_f64_const(m, read_bytes(rdr_bytes, m.pos + 1, 8), build)
      [] opcode = 19 -> op_f32_const(m, read_bytes(rdr_bytes, m.pos + 1, 4))
      [] opcode = 20 -> op_get_local(m, ReadLEB(rdr_bytes, m.pos + 1, 32, FALSE))
      [] opcode = 21 -> op_set_local(m, ReadLEB(rdr_bytes, m.pos + 1, 32, FALSE), TRUE)
      [] opcode = 25 -> op_set_local(m, ReadLEB(rdr_bytes, m.pos + 1, 32, FALSE), FALSE)
      [] opcode = 22 ->
             call(m, ReadLEB(rdr_bytes, m.pos + 1, 32, FALSE), function, MaxDepth,
                  import_list, W).m
      [] opcode \in (64..90) \cup {182, 183} -> op_i32(m, opcode)
      [] opcode \in (91..116) \cup {184, 185, 186} -> op_i64(m, opcode)
      [] opcode = 166 -> op_i64_extend_s(m)
      [] opcode = 176 -> op_f64_convert_s(m)
      [] opcode \in UnimplementedOps -> op_unimplemented(m)
      [] opcode \in UnrecognizedOps -> op_unrecognized(m)
      [] OTHER -> Raise(m, "KeyError")

\* The turns a run may take in this model
MaxTurns == 150

\* run_code_v12 from the machine m to the end of the run
RECURSIVE run_code_v12(_, _, _)
run_code_v12(m, build, turns) ==
    IF m.status # "running" \/ turns = 0 THEN m
    ELSE IF m.pos >= Len(rdr_bytes) THEN [m EXCEPT !.status = "returned"]
    ELSE run_code_v12(LoopTurn(m, rdr_bytes[m.pos + 1], build), build, turns - 1)

\* What m.run(entry, strs) gives on the Module as decoding has left it:
\* the end of the run, status and result.
FreshRun(entry, strs, build) ==
    run_code_v12(run(Len(rdr_bytes), export_map, entry, strs, function, MaxDepth),
                 build, MaxTurns)

\* C18: a run that has ended, whatever runs came before it on the Module,
\* has the outcome (the result it returned or the error it raised) of the
\* same run on the Module as decoding has left it.
C18_RunsIndependent ==
    status \notin {"idle", "running"} =>
        \E build \in Builds :
            /\ FreshRun(name, args, build).status = status
            /\ FreshRun(name, args, build).result = result

\* A run of sub that followed another run (the return address it pushed is
\* not the end of the image, where decoding leaves the reader) is at the end
\* of sub.
C18_Witness ==
    /\ name = "sub" /\ args = <<5, 3>>
    /\ status = "running"
    /\ returnstack # <<>> /\ returnstack[1] # Len(rdr_bytes)
    /\ rdr_pos = 54

\* entry_point is about to return after an error of decoding: of read_magic,
\* read_version or read_sections with its pre-pass.
DecodingRaised ==
    \/ ep.st \in {"magic", "version"}
    \/ ep.st = "sections" /\ rdr_pos < Len(rdr_bytes)

\* m.run has raised.
ExecutionRaised == ep.st = "run" /\ status \notin {"idle", "running", "returned"}

\* C20: entry_point returns 1 if and only if decoding or execution raised,
\* and 0 otherwise; it prints a result value only when it returns 0 and run
\* returned a result.
C20_ExitStatus ==
    [][ep.st # "exit" /\ ep'.st = "exit" =>
          /\ ep'.ret \in {0, 1}
          /\ ep'.ret = 1 <=> DecodingRaised \/ ExecutionRaised
          /\ (\E i \in DOMAIN out' : out'[i].line = "value") =>
                 ep'.ret = 0 /\ result # None]_vars

(***************************************************************************)
(* Calls of native functions                                               *)
(***************************************************************************)

\* The call that is next calls a native function.
CallsNative ==
    /\ At(22)
    /\ Imm.st = "ok"
    /\ PyVal(Imm.val) < Len(function)
    /\ function[PyVal(Imm.val) + 1].cls = "Function"

CallLocals == function[PyVal(Imm.val) + 1].locals

\* The step has entered the function that was called.
Enters ==
    /\ status' = "running"
    /\ returnstack' = Append(returnstack, Imm.pos)

\* What get_local i pushes in the state after the step
LocalAfter(i) == localstack'[Len(localstack') - i]

\* The number of Function descriptors on a signature stack
RECURSIVE Functions(_)
Functions(sigs) ==
    IF sigs = <<>> THEN 0
    ELSE Functions(Pop(sigs)) + (IF Top(sigs).cls = "Function" THEN 1 ELSE 0)

\* C21: when call enters a native function of k parameters and n declared
\* locals after the operands v_0, ..., v_(k-1) were pushed in this order,
\* local i of the callee is v_i for i < k and local k + j is the zero of
\* the kind of declared local j, above the locals of the activations that
\* are there, which the call leaves as they are; get_local i pushes local i
\* of the top of the local stack, and only set_local, tee_local and the
\* steps that enter or leave a function change the local stack.
C21_CalleeFrame ==
    [][/\ CallsNative /\ Enters =>
              /\ Len(localstack') = Len(localstack) + Len(CallParams) + Len(CallLocals)
              /\ SubSeq(localstack', 1, Len(localstack)) = localstack
              /\ \A i \in 0..(Len(CallParams) - 1) :
                     LocalAfter(i) = Operand(Len(CallParams), i)
              /\ \A j \in 0..(Len(CallLocals) - 1) :
                     LocalAfter(Len(CallParams) + j) =
                         [t |-> CallLocals[j + 1], v |-> PyInt(0)]
       /\ At(20) /\ status' = "running" =>
              /\ PyVal(Imm.val) < Len(localstack)
              /\ stack' = Append(stack, localstack[Len(localstack) - PyVal(Imm.val)])
       /\ status = "running" /\ status' = "running"
              /\ ~(At(21) \/ At(25))
              /\ Functions(sigstack') = Functions(sigstack) => localstack' = localstack]_vars

\* In f(8, 4) of FrameModule get_local 0 has pushed 8 and the function is at
\* its end, the declared locals of the kinds i32, i64, f32 and f64 and the
\* parameter 1 having been read before.
C21_Witness ==
    /\ rdr_bytes = FrameModule
    /\ status = "running"
    /\ Len(returnstack) = 2
    /\ At(15)
    /\ stack = <<I32(PyInt(8))>>
    /\ localstack = <<[t |-> "f64", v |-> PyInt(0)], [t |-> "f32", v |-> PyInt(0)],
                      [t |-> "i64", v |-> PyInt(0)], I32(PyInt(0)), I32(PyInt(4)),
                      I32(PyInt(8))>>

\* The step has raised one of the two errors of a call whose operands do not
\* have the kinds of the parameters: the one of call or the one of
\* call_setup.
CallSignatureError ==
    status' \in {"Exception: call signature mismatch", "AssertionError"}

\* C22: a call of a native function of k parameters, with k operands on the
\* stack, raises the error of the call signature if and only if, for some
\* i, the operand pushed i-th does not have the kind of parameter i.
C22_PositionalCheck ==
    [][CallsNative /\ Len(stack) >= Len(CallParams) /\ Len(returnstack) < MaxDepth =>
          (CallSignatureError <=>
              \E i \in 0..(Len(CallParams) - 1) :
                  Operand(Len(CallParams), i).t # CallParams[i + 1])]_vars

(***************************************************************************)
(* if and else                                                             *)
(***************************************************************************)

\* The else Block paired with the if at pos: the one that starts where the
\* if ends.
ElseOf(pos) == block_map[block_map[pos].end]

HasElse(pos) ==
    /\ pos \in DOMAIN block_map
    /\ block_map[pos].kind = 3
    /\ block_map[pos].end \in DOMAIN block_map
    /\ ElseOf(pos).kind = 4

\* The if that is next has a paired else and pops a zero condition.
IfFalseWithElse ==
    /\ At(3)
    /\ Imm.st = "ok"
    /\ HasElse(rdr_pos)
    /\ stack # <<>>
    /\ ~PyTruth(Top(stack).v)

\* C23: an if with a paired else that pops a zero condition pushes the else
\* Block and goes on in the else arm, and the end that terminates an else
\* arm finds that else Block on top of the signature stack.
C23_ElsePushed ==
    [][/\ IfFalseWithElse =>
              /\ status' = "running"
              /\ sigstack' = Append(sigstack, ElseOf(rdr_pos))
              /\ rdr_pos' = ElseOf(rdr_pos).start + 1
       /\ \A e \in DOMAIN block_map :
              block_map[e].kind = 4 /\ At(15) /\ rdr_pos = block_map[e].end =>
                  sigstack # <<>> /\ Top(sigstack) = block_map[e]]_vars

(***************************************************************************)
(* A call and the return from it                                           *)
(***************************************************************************)

\* The turns of run_code_v12 from the machine m, whose signature stack has
\* the Function of the callee at depth + 1, to the turn where an end pops
\* that Function ("end"); the callee is left "open" where the run ends or
\* the turns run out before, and "left" where something else has popped
\* its Function.
RECURSIVE RunCallee(_, _, _, _)
RunCallee(m, build, depth, turns) ==
    IF m.status # "running" \/ turns = 0 \/ m.pos >= Len(rdr_bytes)
    THEN [m |-> m, how |-> "open"]
    ELSE IF Len(m.sigstack) <= depth THEN [m |-> m, how |-> "left"]
    ELSE IF Len(m.sigstack) = depth + 1 /\ rdr_bytes[m.pos + 1] \in {15, 4}
    THEN [m |-> LoopTurn(m, rdr_bytes[m.pos + 1], build), how |-> "end"]
    ELSE RunCallee(LoopTurn(m, rdr_bytes[m.pos + 1], build), build, depth, turns - 1)

\* The machine when the call that is next has entered the function
Entered(build) == LoopTurn(M, 22, build)

\* The callee of the call that is next, as far as it runs
Callee(build) == RunCallee(Entered(build), build, Len(sigstack), MaxTurns)

\* The machine when control is back from the call that is next
BackFrom(build) == Callee(build).m

\* The call that is next enters the function, and the function completes:
\* its Function is popped by an end, reached in sequence or by return, and
\* the run goes on.
CallCompletes(build) ==
    /\ CallsNative
    /\ Entered(build).status = "running"
    /\ Entered(build).sigstack = Append(sigstack, function[PyVal(Imm.val) + 1])
    /\ Callee(build).how = "end"
    /\ BackFrom(build).status = "running"

\* C24: when a call of a native function completes, the signature stack,
\* the local stack and the return-address stack are, control being back in
\* the caller, what they were before the call, and the reader is after the
\* immediate of the call.
C24_CallReturn ==
    \A build \in Builds :
        CallCompletes(build) =>
            /\ BackFrom(build).sigstack = sigstack
            /\ BackFrom(build).localstack = localstack
            /\ BackFrom(build).returnstack = returnstack
            /\ BackFrom(build).pos = Imm.pos

\* main of ReturnModule is back from f(7), which returned from inside two
\* blocks: its block is open, its local is there and 7 is on the stack.
C24_Witness ==
    /\ rdr_bytes = ReturnModule
    /\ status = "running"
    /\ Len(sigstack) = 2 /\ Top(sigstack).cls = "Block"
    /\ Len(returnstack) = 1
    /\ localstack = <<I32(PyInt(0))>>
    /\ stack = <<I32(PyInt(7))>>
    /\ At(15)

(***************************************************************************)
(* The signature stack and the return-address stack during a run           *)
(***************************************************************************)

\* C25: at every turn of the loop of a run the signature stack is not
\* empty and its bottom is the Function that run entered.
C25_SigstackBottom ==
    status = "running" =>
        /\ sigstack # <<>>
        /\ sigstack[1] = EntryFunction
        /\ sigstack[1].cls = "Function"

\* C26: at every turn of the loop of a run the return-address stack has one
\* entry for each Function on the signature stack.
C26_ReturnstackMirrors ==
    status = "running" => Len(returnstack) = Functions(sigstack)

(***************************************************************************)
(* The Blocks and the branches of the pre-pass                             *)
(***************************************************************************)

\* The opcode at the offset pos of the image
OpcodeAt(pos) == rdr_bytes[pos + 1]

\* C27: a Block of block_map, keyed by the offset of its opening opcode, is
\* labelled at that offset if it is a loop or an else block, and after the
\* end or else that terminates it if it is a block or an if; a native
\* Function is labelled at its end.
C27_LabelAddresses ==
    /\ \A o \in DOMAIN block_map :
           /\ block_map[o].kind = OpcodeAt(o)
           /\ block_map[o].kind \in {2, 4} => block_map[o].label_addr = o
           /\ block_map[o].kind \in {1, 3} =>
                  /\ OpcodeAt(block_map[o].end) \in {15, 4}
                  /\ block_map[o].label_addr = block_map[o].end + 1
    /\ \A i \in DOMAIN function :
           function[i].cls = "Function" => function[i].label_addr = function[i].end

\* The offsets of the br and br_if instructions of a well-nested body
BranchOffsets ==
    {p \in DOMAIN Nesting(rdr_bytes).at : OpcodeAt(p) \in {6, 7}}

\* C28: pass B scans from the function's start to the function's end, and
\* after the pre-pass of a well-nested body has succeeded branch_map has a
\* key for the offset of every br and br_if of the body.
C28_BranchMapComplete ==
    /\ fb.st = "passB" => fb.start = fb.fstart /\ fb.end = fb.fend
    /\ fb.st = "done" /\ Nesting(rdr_bytes).ok => BranchOffsets \subseteq DOMAIN branch_map

\* C29: a module whose one irregularity is a branch to the level of the
\* function is decoded without error, and its invocation ends either by
\* returning or, the branch having been taken, with the error
\* "unimplemented" of do_branch.
C29_FunctionLevelBranch ==
    [][ep.st # "exit" /\ ep'.st = "exit" /\ rdr_bytes \in FunctionBranchModules =>
          /\ ~DecodingRaised
          /\ status \in {"returned", "Exception: br* in function unimplemented"}]_vars

(***************************************************************************)
(* Branches out of a block or an if                                        *)
(***************************************************************************)

\* The native function whose body holds the offset pos
FunctionAt(pos) ==
    CHOOSE f \in {function[i] : i \in DOMAIN function} :
        f.cls = "Function" /\ f.start <= pos /\ pos <= f.end

\* The constructs open at the instruction at pos in the text of its
\* function, outermost first, an if and its else arm being one construct;
\* the offsets are those of the image.
OpenAt(pos) ==
    LET f == FunctionAt(pos)
        open == Nesting(SubSeq(rdr_bytes, f.start + 1, f.end + 1)).at[pos - f.start]
    IN  [i \in DOMAIN open |-> [kind |-> open[i].kind, start |-> open[i].start + f.start]]

\* The branch that is next is taken, with depth d.
BranchTaken(d) ==
    /\ \/ At(6)
       \/ At(7) /\ stack # <<>> /\ PyTruth(Top(stack).v)
    /\ Imm.st = "ok"
    /\ PyVal(Imm.val) = d

\* The offset of the end that terminates the construct opened at o, where o
\* is the offset of a block, of an if or of the else of an if
ConstructEnd(o) == IF HasElse(o) THEN ElseOf(o).end ELSE block_map[o].end

\* The entries of the signature stack up to the Function on top of the
\* others
FrameBase == CHOOSE n \in DOMAIN sigstack :
                 /\ sigstack[n].cls = "Function"
                 /\ \A j \in DOMAIN sigstack : sigstack[j].cls = "Function" => j <= n

\* C30: a taken br d or br_if d whose target in the text, the d-th construct
\* around it, is a block or an if (then arm or else arm) goes on at the
\* first instruction after the end of that construct, with the signature
\* stack that the function had before it entered the construct: its
\* Function and one entry for each construct around the target.
C30_BranchOut ==
    [][\A d \in 0..3 :
          BranchTaken(d) /\ d < Len(OpenAt(rdr_pos))
              /\ OpenAt(rdr_pos)[Len(OpenAt(rdr_pos)) - d].kind \in {1, 3, 4} =>
                  /\ status' = "running"
                  /\ rdr_pos' = ConstructEnd(OpenAt(rdr_pos)[Len(OpenAt(rdr_pos)) - d].start) + 1
                  /\ sigstack' = SubSeq(sigstack, 1, FrameBase + Len(OpenAt(rdr_pos)) - d - 1)]_vars

\* The else Blocks of block_map: the offsets of the else opcodes
ElseOffsets == {e \in DOMAIN block_map : block_map[e].kind = 4}

\* C31: the turn at an else, which the then arm reaches at its end, goes on
\* after the end that matches the if, the Block of the if popped and the
\* return-address stack as it was; the turn at the end of an else arm goes
\* on at the next instruction with the return-address stack as it was.
C31_ArmsExclusive ==
    [][\A e \in ElseOffsets :
          /\ At(4) /\ rdr_pos = e =>
                 /\ status' = "running"
                 /\ rdr_pos' = block_map[e].end + 1
                 /\ sigstack' = Pop(sigstack)
                 /\ returnstack' = returnstack
          /\ At(15) /\ rdr_pos = block_map[e].end =>
                 /\ status' = "running"
                 /\ rdr_pos' = rdr_pos + 1
                 /\ returnstack' = returnstack]_vars

(***************************************************************************)
(* The bodies of the Code section                                          *)
(***************************************************************************)

\* The positions in the function table of the native functions
Natives == {i \in DOMAIN function : function[i].cls = "Function"}

\* read_section is about to read a Code section that has one body for each
\* native function.
AtCodeSection ==
    /\ ep.st = "sections"
    /\ rdr_pos < Len(rdr_bytes)
    /\ SectionId.st = "ok" /\ PyVal(SectionId.val) = 10
    /\ SectionLength.st = "ok"
    /\ Natives # {}
    /\ rdr_bytes[SectionLength.pos + 1] = Cardinality(Natives)

\* C32: reading a Code section of one body for each native function raises
\* nothing and gives every native function, in the order of the function
\* table, the extent of a body of the section, one after the other; the
\* index of a native function is its position in the table, and the imports
\* of the table stay as they are.
C32_BodiesPair ==
    [][AtCodeSection =>
          /\ ep'.st = "sections"
          /\ Len(function') = Len(function)
          /\ \A i \in DOMAIN function :
                 IF i \in Natives
                 THEN /\ function'[i].index = i - 1
                      /\ function'[i].start > SectionLength.pos
                      /\ function'[i].start <= function'[i].end
                      /\ function'[i].end < rdr_pos'
                      /\ \A j \in Natives : i < j => function'[i].end < function'[j].start
                 ELSE function'[i] = function[i]]_vars

(***************************************************************************)
(* The order of the operands of a binary operation                         *)
(***************************************************************************)

\* The kind of the operands of an implemented binary operation
OperandKind(opcode) == IF opcode \in I32Implemented THEN "i32" ELSE "i64"

\* The loop is at a binary operation with two operands of its kind on the
\* stack: a was pushed first, b is on top.
BinaryTurn(opcode) ==
    /\ At(opcode)
    /\ Len(stack) >= 2
    /\ stack[Len(stack) - 1].t = OperandKind(opcode)
    /\ Top(stack).t = OperandKind(opcode)

OperandA == stack[Len(stack) - 1].v

OperandB == Top(stack).v

\* The turn pushes a value of kind t on the stack less its two operands.
PushesOne(t) ==
    /\ status' = "running"
    /\ rdr_pos' = rdr_pos + 1
    /\ Len(stack') = Len(stack) - 1
    /\ Pop(stack') = Pop(Pop(stack))
    /\ Top(stack').t = t

\* C33: a binary operation pops b (the top) and then a (pushed first) and
\* pushes one value of op(a, b): i32.sub pushes I32(a - b), i32.lt_s pushes
\* I32(1) if a < b and I32(0) if not, i64.sub pushes I64(a - b), i64.gt_s
\* pushes an I32, 1 if a > b and 0 if not; after every implemented binary
\* operation (a division by 0 aside) the stack is one shorter.
C33_OperandOrder ==
    [][/\ \A opcode \in I32Implemented \cup I64Implemented :
             BinaryTurn(opcode) /\ ~(opcode = 94 /\ OperandB = PyInt(0)) =>
                 PushesOne(IF opcode \in I32Implemented \cup {110} THEN "i32" ELSE "i64")
       /\ BinaryTurn(65) => PushesOne("i32") /\ Top(stack').v = PySub(OperandA, OperandB)
       /\ BinaryTurn(79) =>
             /\ PushesOne("i32")
             /\ PyVal(Top(stack').v) = (IF PyVal(OperandA) < PyVal(OperandB) THEN 1 ELSE 0)
       /\ BinaryTurn(92) => PushesOne("i64") /\ Top(stack').v = PySub(OperandA, OperandB)
       /\ BinaryTurn(110) =>
             /\ PushesOne("i32")
             /\ PyVal(Top(stack').v) = (IF PyVal(OperandA) > PyVal(OperandB) THEN 1 ELSE 0)
      ]_vars

\* The operands were a = -7 and then b = 2: i64.sub has pushed I64(-9), or
\* i32.lt_s has pushed I32(1).
C33_Witness ==
    /\ status = "running"
    /\ rdr_pos > 0
    /\ SubSeq(argv, 4, Len(argv)) = <<<<50>>, <<45, 55>>>>
    /\ \/ /\ rdr_bytes = I64BinaryModule(92, 2)
          /\ rdr_bytes[rdr_pos] = 92
          /\ stack = <<I64(PyInt(-9))>>
       \/ /\ rdr_bytes = I32BinaryModule(79)
          /\ rdr_bytes[rdr_pos] = 79
          /\ stack = <<I32(PyInt(1))>>

(***************************************************************************)
(* The length check of read_LEB                                            *)
(***************************************************************************)

\* The bytes with the continuation bit set from the offset pos up to the
\* first byte without it
RECURSIVE ContinuationBytes(_, _)
ContinuationBytes(bytes, pos) ==
    IF pos >= Len(bytes) \/ bytes[pos + 1] < 128 THEN 0
    ELSE 1 + ContinuationBytes(bytes, pos + 1)

\* ceil(maxbits/7) of the widths read: 1, 5 and 10
LEBLimit == (leb.maxbits + 6) \div 7

\* C34: read_LEB(maxbits) raises the overflow error exactly when more than
\* ceil(maxbits/7) bytes with the continuation bit precede the terminating
\* byte, and raises it on reading the byte ceil(maxbits/7) + 1; on every
\* other encoding it returns with the reader just after the terminating byte.
C34_LEBOverflow ==
    /\ leb.st \in {"loop", "break", "done", "overflow"}
          => leb.bcnt <= LEBLimit + 1 /\ rdr_pos <= LEBLimit + 1
    /\ leb.st = "overflow"
          => /\ ContinuationBytes(rdr_bytes, leb.startpos) > LEBLimit
             /\ rdr_pos = leb.startpos + LEBLimit + 1
    /\ leb.st = "done"
          => /\ ContinuationBytes(rdr_bytes, leb.startpos) <= LEBLimit
             /\ rdr_pos = leb.startpos + ContinuationBytes(rdr_bytes, leb.startpos) + 1
             /\ rdr_bytes[rdr_pos] < 128
    /\ leb.st # "IndexError"

\* A 32-bit read has raised on the sixth byte of an encoding of more than
\* five continuation bytes.
C34_Witness ==
    /\ leb.st = "overflow"
    /\ leb.maxbits = 32
    /\ ContinuationBytes(rdr_bytes, 0) > 5
    /\ rdr_pos = 6

(***************************************************************************)
(* The maps of the pre-pass during run                                     *)
(***************************************************************************)

RECURSIVE FrameSum(_)
FrameSum(sigs) ==
    IF sigs = <<>> THEN 0
    ELSE FrameSum(Pop(sigs))
         + (IF Top(sigs).cls = "Function"
            THEN Len(Top(sigs).type.params) + Len(Top(sigs).locals) ELSE 0)

\* The step pops the Function on top of the signature stack, at an end or an
\* else, and the run goes on or returns.
PopsFunction ==
    /\ (At(15) \/ At(4))
    /\ sigstack # <<>>
    /\ Top(sigstack).cls = "Function"
    /\ status' \in {"running", "returned"}

\* C36: between the turns of the loop the local stack is as long as the
\* parameters and declared locals of the Functions on the signature stack
\* together; the end that pops a Function takes the frame of this function
\* off the local stack and leaves the entries under it.
C36_LocalAccounting ==
    [][/\ status' = "running" => Len(localstack') = FrameSum(sigstack')
       /\ PopsFunction =>
             /\ sigstack' = Pop(sigstack)
             /\ Len(localstack) >= FrameSum(<<Top(sigstack)>>)
             /\ localstack' = SubSeq(localstack, 1,
                                     Len(localstack) - FrameSum(<<Top(sigstack)>>))]_vars

\* f(0) of RecursiveModule has returned 9 into f(1): main, f(2) and f(1) are
\* on the signature stack with the two frames of f on the local stack.
C36_Witness ==
    /\ rdr_bytes = RecursiveModule
    /\ status = "running"
    /\ Functions(sigstack) = 3
    /\ Len(localstack) = 4
    /\ stack # <<>> /\ Top(stack) = I32(PyInt(9))
    /\ Len(returnstack) = 3

(***************************************************************************)
(* The locals that get_local, set_local and tee_local reach                *)
(***************************************************************************)

\* The Function of the activation that is running: the last one pushed
RECURSIVE Activation(_)
Activation(sigs) == IF Top(sigs).cls = "Function" THEN Top(sigs) ELSE Activation(Pop(sigs))

\* The loop is at get_local, set_local or tee_local n inside a function.
LocalTurn ==
    /\ (At(20) \/ At(21) \/ At(25))
    /\ Imm.st = "ok"
    /\ Functions(sigstack) > 0

\* The entries of the local stack under the frame of the running activation
CallerFrames ==
    SubSeq(localstack, 1, Len(localstack) - FrameSum(<<Activation(sigstack)>>))

\* C37: get_local n, set_local n and tee_local n of a function of k
\* parameters and m declared locals leave the frames of the callers as they
\* are; with n >= k + m they fail, and neither push a local of a caller nor
\* write one.
C37_FrameIsolation ==
    [][LocalTurn =>
          /\ Len(localstack') = Len(localstack)
          /\ SubSeq(localstack', 1, Len(CallerFrames)) = CallerFrames
          /\ PyVal(Imm.val) >= FrameSum(<<Activation(sigstack)>>) =>
                /\ status' \notin {"running", "returned"}
                /\ localstack' = localstack
                /\ Len(stack') <= Len(stack)]_vars

(***************************************************************************)
(* The block, loop and if opcodes of a body that the pre-pass accepted     *)
(***************************************************************************)

\* The offsets of the instructions of the image from pos on, each with the
\* immediates of its opcode
RECURSIVE InstrOffsets(_)
InstrOffsets(pos) ==
    IF pos >= Len(rdr_bytes) THEN {}
    ELSE IF drop_immediates(rdr_bytes, pos + 1, OpcodeAt(pos)).st # "ok" THEN {pos}
    ELSE {pos} \cup InstrOffsets(drop_immediates(rdr_bytes, pos + 1, OpcodeAt(pos)).pos)

StructuredOffsets == {p \in InstrOffsets(0) : OpcodeAt(p) \in {1, 2, 3}}

\* C38: when find_blocks has gone through a body without error, block_map
\* has an entry for the offset of every block, loop and if of the body: a
\* body with a block, loop or if that no end closes before the final end of
\* the function is not accepted.
C38_UnclosedRejected ==
    fb.st = "done" => StructuredOffsets \subseteq DOMAIN block_map

(***************************************************************************)
(* The quotient of i64.div_s                                               *)
(***************************************************************************)

Abs(n) == IF n < 0 THEN -n ELSE n

\* The quotient of a by b truncated toward zero
TruncDiv(a, b) ==
    IF (a < 0) = (b < 0) THEN Abs(a) \div Abs(b) ELSE -(Abs(a) \div Abs(b))

\* C39: i64.div_s of the I64 operands a and b, b not 0, pushes I64(q) with q
\* the quotient of a by b truncated toward zero (-7 by 2 and 7 by -2 give
\* -3), so that |a - q * b| < |b|.
C39_DivTruncates ==
    [][BinaryTurn(94) /\ OperandB # PyInt(0) =>
          /\ PushesOne("i64")
          /\ PyVal(Top(stack').v) = TruncDiv(PyVal(OperandA), PyVal(OperandB))
          /\ Abs(PyVal(OperandA) - PyVal(Top(stack').v) * PyVal(OperandB))
                 < Abs(PyVal(OperandB))]_vars

====
